---- MODULE Spec2Model ----
(***************************************************************************)
(* The bytecode emitter of the Basecode bootstrap compiler                 *)
(* (src/basecode/compiler/byte_code_emitter.cpp, the basic-block version). *)
(*                                                                         *)
(* emit_element and emit_block are recursive; the model runs them with an  *)
(* explicit stack of frames, one frame per active call, and one action per *)
(* stretch of a handler between two recursive calls into a nested block.   *)
(* The element graph is the emitter's input: the model reveals it element  *)
(* by element, at the moment emit_block or emit_element first reads it.    *)
(***************************************************************************)
EXTENDS Integers, Sequences, FiniteSets, TLC

\* Number of statements and operators the revealed program may hold.
MaxElements == 3

VARIABLES
    blocks,             \* assembler.blocks(): the list of basic blocks
    bb,                 \* *basic_block of the innermost active call
    control_flow_stack, \* byte_code_emitter::_control_flow_stack
    frames,             \* the active emit_block / emit_element calls
    elems,              \* the element graph read so far, by element id
    fuel,               \* elements the program may still reveal
    errors,             \* codes of the messages in session.result()
    cfg_edges,          \* edges handed to labels.add_cfg_edge
    status              \* "init", "emitting", "ok", "failed", "crashed"

vars == <<blocks, bb, control_flow_stack, frames, elems, fuel, errors,
          cfg_edges, status>>

(***************************************************************************)
(* Basic blocks, labels, instructions.                                     *)
(***************************************************************************)

\* A label name: the id of the element that names it and the suffix.
NoLabel == <<0, "">>
StartLabel == <<0, "_start">>
EndLabel == <<0, "_end">>

\* An instruction: opcode, label operand, immediate operand, and the id of
\* the element whose lowering appended it.
Ins(op, label, n, by) == [op |-> op, label |-> label, n |-> n, by |-> by]

\* A block as _blocks.make() returns it.
make == [labels |-> <<>>, instrs |-> <<>>,
         predecessors |-> {}, successors |-> {}]

\* The null block pointer; block pointers are indices into blocks.
nullptr == 0

\* The emitter state the lowering helpers thread: the block list, the
\* block *basic_block points at, and the cfg edges recorded.
Asm(bs, b, ce) == [blocks |-> bs, bb |-> b, cfg |-> ce, ok |-> TRUE,
                   errs |-> <<>>]

\* _blocks.make() followed by assembler.blocks().emplace_back(block).
emplace_back(a) == [a EXCEPT !.blocks = Append(@, make)]
last(a) == Len(a.blocks)

instr(a, b, i) == [a EXCEPT !.blocks[b].instrs = Append(@, i)]
label(a, b, l) == [a EXCEPT !.blocks[b].labels = Append(@, l)]
add_predecessors(a, b, ps) ==
    [a EXCEPT !.blocks[b].predecessors = @ \cup ps]
add_successors(a, b, ss) ==
    [a EXCEPT !.blocks[b].successors = @ \cup ss]
set_bb(a, b) == [a EXCEPT !.bb = b]
add_cfg_edge(a, b, l) == [a EXCEPT !.cfg = @ \cup {<<b, l>>}]
fail(a, code) == [a EXCEPT !.ok = FALSE, !.errs = Append(@, code)]

\* basic_block::is_current_instruction: is the block's last instruction op.
is_current_instruction(bs, b, op) ==
    /\ Len(bs[b].instrs) > 0
    /\ bs[b].instrs[Len(bs[b].instrs)].op = op

(***************************************************************************)
(* The element graph.                                                      *)
(***************************************************************************)

\* A call site: the callee (foreign or not, found by the ffi or not,
\* returning a value or not), the caller's live locals, the arguments.
Call(is_foreign, found, has_return, locals, args) ==
    [is_foreign |-> is_foreign, found |-> found, has_return |-> has_return,
     locals |-> locals, args |-> args]

\* The call a statement or an operand makes unless said otherwise: a
\* native procedure without arguments, called with no live locals.
PlainCall == Call(FALSE, TRUE, FALSE, 0, <<>>)

\* An element: its kind, its parent element, its place in the parent, a
\* flag (block: has_stack_frame; if: has a false branch; case: is the
\* default case; operator: is non-owning), for a block its defer stack, for
\* a call its call site.
Elem(kind, parent, role, flag) ==
    [kind |-> kind, parent |-> parent, role |-> role, flag |-> flag,
     defer_stack |-> <<>>, call |-> PlainCall]

\* An element of an expression: also the ids of the operands of an
\* operator, the value of an integer literal, the type of an identifier or
\* a cast, the symbol of an identifier reference.
Node(kind, parent, role, flag) ==
    [kind |-> kind, parent |-> parent, role |-> role, flag |-> flag,
     defer_stack |-> <<>>, call |-> PlainCall, operands |-> <<>>,
     value |-> 0, type |-> <<>>, symbol |-> ""]

\* The statements a block may hold.
StmtKinds == {"assign", "if", "while", "for", "switch", "break", "continue",
              "return", "defer", "proc_call", "fallthrough"}

\* Operands of a logical operator.
Leaf == {"id", "rel", "proc_call"}

\* An expression: an identifier reference, a comparison of two identifiers,
\* or a logical and/or of two leaves.
AllExprs ==
    [kind : {"id", "rel"}, lhs : {"none"}, rhs : {"none"}]
    \cup [kind : {"logical_and", "logical_or"}, lhs : Leaf, rhs : Leaf]

LeafCost(k) == IF k \in {"rel", "proc_call"} THEN 1 ELSE 0
ExprCost(x) ==
    CASE x.kind = "id" -> 0
      [] x.kind = "rel" -> 1
      [] OTHER -> 1 + LeafCost(x.lhs) + LeafCost(x.rhs)
Exprs(f) == {x \in AllExprs : ExprCost(x) <= f}

\* The elements of an expression rooted at element id e: the operator and,
\* for a logical operator, its two operands at e + 1 and e + 2.
ExprElems(x, e, parent, role) ==
    IF x.kind \in {"id", "rel"}
    THEN <<Elem(x.kind, parent, role, FALSE)>>
    ELSE <<Elem(x.kind, parent, role, FALSE),
           Elem(x.lhs, e, "lhs", FALSE),
           Elem(x.rhs, e, "rhs", FALSE)>>

\* Sequences over S of length 0..n.
SeqsUpTo(S, n) == UNION {[1..k -> S] : k \in 0..n}

(***************************************************************************)
(* Procedure calls.                                                        *)
(***************************************************************************)

\* common::align(size, 8).
align(size, n) == ((size + n - 1) \div n) * n

\* basic_block::push_locals / pop_locals over the caller's sorted locals.
RECURSIVE push_locals(_, _, _, _)
push_locals(a, b, n, by) ==
    IF n = 0 THEN a
    ELSE push_locals(instr(a, b, Ins("push", NoLabel, n, by)), b, n - 1, by)

RECURSIVE pop_locals(_, _, _, _)
pop_locals(a, b, n, by) ==
    IF n = 0 THEN a
    ELSE instr(pop_locals(a, b, n - 1, by), b, Ins("pop", NoLabel, n, by))

\* An argument: a scalar pushed directly, a composite copied through the
\* stack pointer, or a nested argument list holding one scalar.
Arg(kind, size) == [kind |-> kind, size |-> size]

\* Lines 2632-2668: one argument that is not a nested list.
emit_argument(a, arg, is_foreign_call, by) ==
    IF arg.kind = "composite" /\ ~is_foreign_call
    THEN instr(instr(a, a.bb,
                     Ins("sub_sp", NoLabel, align(arg.size, 8), by)),
               a.bb, Ins("copy", NoLabel, align(arg.size, 8), by))
    ELSE instr(a, a.bb, Ins("push", NoLabel, 8, by))

\* emit_arguments over elements[1..i], last to first.
RECURSIVE emit_arguments(_, _, _, _, _)
emit_arguments(a, elements, i, is_foreign_call, by) ==
    IF i = 0 THEN a
    ELSE emit_arguments(
           IF elements[i].kind = "list"
           THEN emit_arguments(a, <<Arg("scalar", elements[i].size)>>, 1,
                               is_foreign_call, by)
           ELSE emit_argument(a, elements[i], is_foreign_call, by),
           elements, i - 1, is_foreign_call, by)

\* arg_list->allocated_size() after emit_arguments: type stays null for a
\* nested list (its size goes to the nested list) and for a foreign call.
RECURSIVE allocated_size(_, _, _)
allocated_size(elements, i, is_foreign_call) ==
    IF i = 0 THEN 0
    ELSE allocated_size(elements, i - 1, is_foreign_call)
         + (IF elements[i].kind = "list" \/ is_foreign_call THEN 0
            ELSE align(elements[i].size, 8))

\* The temp local the return value is popped into (line 1060; the code that
\* names it is commented out).
return_temp_name == ""

\* A fresh block after the block *basic_block points at, with edges both
\* ways, and *basic_block moved to it.
link_block(a) ==
    set_bb(add_successors(
             add_predecessors(emplace_back(a), Len(a.blocks) + 1, {a.bb}),
             a.bb, {Len(a.blocks) + 1}),
           Len(a.blocks) + 1)

\* The same, and the block's label.
next_block(a, l) == label(link_block(a), Len(a.blocks) + 1, l)

\* Lines 1076-1090: prologue block and the caller's locals.
proc_call_prologue(a, e, c) ==
    IF c.is_foreign THEN next_block(a, <<e, "prologue">>)
    ELSE push_locals(next_block(a, <<e, "prologue">>), Len(a.blocks) + 1,
                     c.locals, e)

\* Lines 1099-1109: the return slot.
proc_call_return_slot(a, e, c) ==
    IF ~c.is_foreign /\ c.has_return
    THEN instr(a, a.bb, Ins("sub_sp", NoLabel, 8, e)) ELSE a

\* Lines 1111-1166: invoke block and the call.
proc_call_invoke(a, e, c) ==
    IF c.is_foreign
    THEN IF c.found
         THEN instr(next_block(a, <<e, "invoke">>), Len(a.blocks) + 1,
                    Ins("call_foreign", NoLabel, 0, e))
         ELSE fail(next_block(a, <<e, "invoke">>), "X000")
    ELSE add_cfg_edge(
           instr(next_block(a, <<e, "invoke">>), Len(a.blocks) + 1,
                 Ins("call", <<e, "callee">>, 0, e)),
           Len(a.blocks) + 1, <<e, "callee">>)

\* Lines 1178-1185: the return value popped into the temp local.
proc_call_pop_result(a, e) ==
    IF return_temp_name # ""
    THEN instr(a, a.bb, Ins("pop", NoLabel, 0, e)) ELSE a

\* Lines 1187-1195: the arguments freed.
proc_call_free_arguments(a, e, allocated) ==
    IF allocated > 0
    THEN instr(a, a.bb, Ins("add_sp", NoLabel, allocated, e)) ELSE a

\* Lines 1168-1199: epilogue block.
proc_call_epilogue(a, e, c) ==
    IF ~a.ok THEN a
    ELSE IF c.is_foreign
    THEN proc_call_free_arguments(
           proc_call_pop_result(next_block(a, <<e, "epilogue">>), e), e,
           allocated_size(c.args, Len(c.args), c.is_foreign))
    ELSE pop_locals(
           proc_call_free_arguments(
             proc_call_pop_result(next_block(a, <<e, "epilogue">>), e), e,
             allocated_size(c.args, Len(c.args), c.is_foreign)),
           Len(a.blocks) + 1, c.locals, e)

\* emit_element, case proc_call.
emit_proc_call(a, e, c) ==
    proc_call_epilogue(
      proc_call_invoke(
        proc_call_return_slot(
          emit_arguments(proc_call_prologue(a, e, c), c.args, Len(c.args),
                         c.is_foreign, e),
          e, c),
        e, c),
      e, c)

(***************************************************************************)
(* Expressions.                                                            *)
(***************************************************************************)

is_logical_conjunction_operator(op) == op \in {"logical_and", "logical_or"}

\* Lines 2806-2816: the exit block every relational operator ends in.
relational_exit(a, e, current_block) ==
    set_bb(instr(label(add_successors(
                         add_predecessors(emplace_back(a),
                                          Len(a.blocks) + 1, {current_block}),
                         current_block, {Len(a.blocks) + 1}),
                       Len(a.blocks) + 1, <<e, "exit">>),
                 Len(a.blocks) + 1, Ins("nop", NoLabel, 0, e)),
           Len(a.blocks) + 1)

\* Lines 2762-2804: a comparison.
emit_comparison(a, e) ==
    relational_exit(
      instr(instr(a, a.bb, Ins("cmp", NoLabel, 0, e)),
            a.bb, Ins("setcc", NoLabel, 0, e)),
      e, a.bb)

\* emit_element on an operand of a logical operator.
emit_operand(a, e, k) ==
    CASE k = "rel" -> emit_comparison(a, e)
      [] k = "proc_call" -> emit_proc_call(a, e, PlainCall)
      [] OTHER -> a

\* Lines 2720-2761: the branch on the left operand and the rhs block.
emit_conjunction(a, e, kind) ==
    relational_exit(
      set_bb(instr(label(add_cfg_edge(
                           add_successors(
                             add_predecessors(
                               emplace_back(
                                 instr(instr(label(a, a.bb,
                                                   <<e, "lhs_eval">>),
                                             a.bb,
                                             Ins("move", NoLabel, 0, e)),
                                       a.bb,
                                       Ins(IF kind = "logical_or"
                                           THEN "bnz" ELSE "bz",
                                           <<e, "exit">>, 0, e))),
                               Len(a.blocks) + 1, {a.bb}),
                             a.bb, {Len(a.blocks) + 1}),
                           a.bb, <<e, "exit">>),
                         Len(a.blocks) + 1, <<e, "rhs_eval">>),
                   Len(a.blocks) + 1, Ins("move", NoLabel, 0, e)),
             Len(a.blocks) + 1),
      e, a.bb)

\* Lines 2706-2716 and on: both operands are emitted, then the operator.
emit_relational_operator(a, e, x) ==
    IF is_logical_conjunction_operator(x.kind)
    THEN emit_conjunction(
           emit_operand(emit_operand(a, e + 1, x.lhs), e + 2, x.rhs),
           e, x.kind)
    ELSE emit_comparison(a, e)

\* emit_element on an expression.
emit_expression(a, e, x) ==
    IF x.kind = "id" THEN a ELSE emit_relational_operator(a, e, x)

(***************************************************************************)
(* The flow-control stack.                                                 *)
(***************************************************************************)

\* flow_control_t. values[switch_expression] is present or not;
\* values[next_element] is the id of the statement after the one being
\* emitted (0: none).
flow_control_t(exit_label, continue_label, has_switch_expression) ==
    [exit_label |-> exit_label, continue_label |-> continue_label,
     fallthrough |-> FALSE, predecessor |-> nullptr,
     switch_expression |-> has_switch_expression, next_element |-> 0]

push_flow_control(stack, control_flow) == Append(stack, control_flow)

pop_flow_control(stack) == IF Len(stack) = 0 THEN stack ELSE stack

\* The index of the top record, 0 for the null pointer.
current_flow_control(stack) == Len(stack)

\* The record current_flow_control points at.
Top_record(stack) == stack[Len(stack)]

(***************************************************************************)
(* The call stack of the emitter.                                          *)
(***************************************************************************)

\* A frame: the handler, the element it lowers, where it stands, the block
\* pointers it holds in locals, the flow-control record it holds a
\* pointer to, a label or element it remembers, and for emit_block the
\* statements and the loop index.
Frame(op, id, stage, b1, b2, b3, fc, aux, stmts, idx) ==
    [op |-> op, id |-> id, stage |-> stage, b1 |-> b1, b2 |-> b2, b3 |-> b3,
     fc |-> fc, aux |-> aux, stmts |-> stmts, idx |-> idx]

BlockCall(id) == Frame("block", id, "enter", 0, 0, 0, 0, NoLabel, <<>>, 0)

Top == frames[Len(frames)]
Pop(fs) == SubSeq(fs, 1, Len(fs) - 1)

Running == status = "emitting" /\ Len(frames) > 0

\* The emitter state at the start of an action, and its commit.
asm == Asm(blocks, bb, cfg_edges)
Commit(a) == blocks' = a.blocks /\ bb' = a.bb /\ cfg_edges' = a.cfg

\* A handler returns false: every active call returns false, each scope
\* guard of a loop or switch lowering runs pop_flow_control.
RECURSIVE unwind(_, _)
unwind(stack, fs) ==
    IF fs = <<>> THEN stack
    ELSE unwind(IF fs[Len(fs)].op \in {"while", "for", "switch"}
                THEN pop_flow_control(stack) ELSE stack, Pop(fs))

Abort(a, stack, fs, codes) ==
    /\ Commit(a)
    /\ status' = "failed"
    /\ frames' = <<>>
    /\ errors' = errors \o codes
    /\ control_flow_stack' = unwind(stack, fs)
    /\ elems' = [i \in 1..Len(elems) |->
                    IF elems[i].role = "synthetic"
                    THEN [elems[i] EXCEPT !.role = "removed"] ELSE elems[i]]
    /\ UNCHANGED fuel

\* An exception or a null dereference ends the compiler.
Crash ==
    /\ status' = "crashed"
    /\ frames' = <<>>
    /\ UNCHANGED <<blocks, bb, control_flow_stack, elems, fuel, errors,
                   cfg_edges>>

Init ==
    /\ blocks = <<>>
    /\ bb = nullptr
    /\ control_flow_stack = <<>>
    /\ frames = <<>>
    /\ elems = <<>>
    /\ fuel = MaxElements
    /\ errors = <<>>
    /\ cfg_edges = {}
    /\ status = "init"

(***************************************************************************)
(* emit(): bootstrap block, start block, the implicit block of the         *)
(* program's module, end block.                                            *)
(***************************************************************************)

\* emit() up to the call of emit_block on the module's scope.
emit_begin ==
    /\ status = "init"
    /\ \E has_stack_frame \in BOOLEAN :
        LET a1 == emplace_back(asm)
            bootstrap_block == last(a1)
            a2 == instr(a1, bootstrap_block, Ins("jmp", StartLabel, 0, 0))
            a3 == emplace_back(a2)
            start_block == last(a3)
            a4 == instr(label(add_successors(
                      add_predecessors(a3, start_block, {bootstrap_block}),
                      bootstrap_block, {start_block}),
                    start_block, StartLabel),
                  start_block, Ins("move_fp_sp", NoLabel, 0, 0))
            a5 == emplace_back(a4)
            implicit_block == last(a5)
            a6 == set_bb(label(a5, implicit_block, <<1, "implicit">>),
                         implicit_block)
        IN /\ Commit(a6)
           /\ elems' = <<Elem("block", 0, "module", has_stack_frame)>>
           /\ frames' = <<Frame("emit", 0, "implicit", start_block,
                                implicit_block, 0, 0, NoLabel, <<>>, 0),
                          BlockCall(1)>>
           /\ status' = "emitting"
           /\ UNCHANGED <<control_flow_stack, fuel, errors>>

\* The rest of emit_implicit_blocks, then emit_end_block.
emit_end ==
    /\ Running /\ Top.op = "emit"
    /\ LET start_block == Top.b1
           implicit_block == Top.b2
           a1 == add_successors(
                   add_predecessors(asm, implicit_block, {start_block}),
                   start_block, {implicit_block})
           last_implicit_block == implicit_block
           a2 == emplace_back(a1)
           end_block == last(a2)
           a3 == instr(label(add_predecessors(
                     add_successors(a2, last_implicit_block, {end_block}),
                     end_block, {last_implicit_block}),
                   end_block, EndLabel),
                 end_block, Ins("exit", NoLabel, 0, 0))
       IN Commit([a3 EXCEPT !.bb = bb])
    /\ frames' = <<>>
    /\ status' = "ok"
    /\ UNCHANGED <<control_flow_stack, elems, fuel, errors>>

(***************************************************************************)
(* emit_block.                                                             *)
(***************************************************************************)

\* block->defer_stack(): the defer statements of the block pushed in
\* source order, the last one on top.
RECURSIVE defers_of(_)
defers_of(ks) ==
    IF ks = <<>> THEN <<>>
    ELSE LET rest == defers_of(Pop(ks))
         IN IF ks[Len(ks)][2] = "defer" THEN Append(rest, ks[Len(ks)][1])
            ELSE rest

\* begin_stack_frame.
begin_stack_frame(a, block) ==
    IF elems[block].flag
    THEN instr(instr(a, a.bb, Ins("push_fp", NoLabel, 0, block)),
               a.bb, Ins("move_fp_sp", NoLabel, 0, block))
    ELSE a

\* begin_stack_frame, and the statements of the block come into view.
emit_block_begin ==
    /\ Running /\ Top.op = "block" /\ Top.stage = "enter"
    /\ LET block == Top.id
           is_scope == elems[block].role = "scope"
           a1 == begin_stack_frame(asm, block)
       IN \E ks \in SeqsUpTo(IF is_scope THEN {"case"} ELSE StmtKinds, fuel) :
          \E fl \in [1..Len(ks) -> IF is_scope THEN BOOLEAN ELSE {FALSE}] :
            LET ids == [i \in 1..Len(ks) |-> Len(elems) + i]
                new == [i \in 1..Len(ks) |-> Elem(ks[i], block, "stmt", fl[i])]
                stack == defers_of([i \in 1..Len(ks) |-> <<ids[i], ks[i]>>])
            IN /\ elems' = [elems EXCEPT ![block].defer_stack = stack] \o new
               /\ fuel' = fuel - Len(ks)
               /\ frames' = [frames EXCEPT ![Len(frames)] =
                      [@ EXCEPT !.stage = "stmts", !.stmts = ids, !.idx = 1]]
               /\ Commit(a1)
    /\ UNCHANGED <<control_flow_stack, errors, status>>

\* The loop of emit_block stands at a statement of kind k.
AtStmt(k) ==
    /\ Running /\ Top.op = "block" /\ Top.stage = "stmts"
    /\ Top.idx <= Len(Top.stmts)
    /\ elems[Top.stmts[Top.idx]].kind = k

stmt == Top.stmts[Top.idx]

\* The loop index moves on.
advanced == [frames EXCEPT ![Len(frames)].idx = @ + 1]

\* Lines 127-140: the top flow-control record learns the next statement.
with_values ==
    IF current_flow_control(control_flow_stack) = 0 THEN control_flow_stack
    ELSE [control_flow_stack EXCEPT
            ![Len(control_flow_stack)].next_element =
                IF Top.idx < Len(Top.stmts) THEN Top.stmts[Top.idx + 1]
                ELSE 0]

\* A defer statement is skipped.
stmt_defer ==
    /\ AtStmt("defer")
    /\ frames' = advanced
    /\ UNCHANGED <<blocks, bb, control_flow_stack, elems, fuel, errors,
                   cfg_edges, status>>

\* An assignment of a literal to an identifier: one store.
emit_assignment(a, e) == instr(a, a.bb, Ins("store", NoLabel, 0, e))

stmt_assign ==
    /\ AtStmt("assign")
    /\ Commit(emit_assignment(asm, stmt))
    /\ control_flow_stack' = with_values
    /\ frames' = advanced
    /\ UNCHANGED <<elems, fuel, errors, status>>

\* emit_element, cases break_e and continue_e, without a label: the jump
\* to the label the top flow-control record gives.
emit_jump(a, e, target) ==
    LET current_block == a.bb
        a1 == emplace_back(a)
        exit_block == last(a1)
    IN set_bb(add_cfg_edge(
                instr(add_predecessors(a1, exit_block, {current_block}),
                      exit_block, Ins("jmp", target, 0, e)),
                exit_block, target),
              exit_block)

stmt_break ==
    /\ AtStmt("break")
    /\ LET flow_control == current_flow_control(with_values)
       IN IF flow_control = 0
             \/ with_values[flow_control].exit_label = NoLabel
          THEN Abort(asm, with_values, advanced, <<"P081">>)
          ELSE /\ Commit(emit_jump(asm, stmt,
                                   with_values[flow_control].exit_label))
               /\ control_flow_stack' = with_values
               /\ frames' = advanced
               /\ UNCHANGED <<elems, fuel, errors, status>>

stmt_continue ==
    /\ AtStmt("continue")
    /\ LET flow_control == current_flow_control(with_values)
       IN IF flow_control = 0
             \/ with_values[flow_control].continue_label = NoLabel
          THEN Abort(asm, with_values, advanced, <<"P081">>)
          ELSE /\ Commit(emit_jump(asm, stmt,
                                   with_values[flow_control].continue_label))
               /\ control_flow_stack' = with_values
               /\ frames' = advanced
               /\ UNCHANGED <<elems, fuel, errors, status>>

\* emit_element, case fallthrough.
stmt_fallthrough ==
    /\ AtStmt("fallthrough")
    /\ LET flow_control == current_flow_control(with_values)
       IN IF flow_control = 0
          THEN Abort(asm, with_values, advanced, <<"X000">>)
          ELSE /\ control_flow_stack' =
                      [with_values EXCEPT ![flow_control].fallthrough = TRUE]
               /\ frames' = advanced
               /\ UNCHANGED <<blocks, bb, elems, fuel, errors, cfg_edges,
                              status>>

\* emit_element, case return_e, of a return without a value.
emit_return(a, e) ==
    LET current_block == a.bb
        a1 == emplace_back(a)
        return_block == last(a1)
        a2 == set_bb(add_successors(
                       add_predecessors(a1, return_block, {current_block}),
                       current_block, {return_block}),
                     return_block)
    IN instr(instr(instr(a2, return_block,
                         Ins("move_sp_fp", NoLabel, 0, e)),
                   return_block, Ins("pop_fp", NoLabel, 0, e)),
             return_block, Ins("rts", NoLabel, 0, e))

stmt_return ==
    /\ AtStmt("return")
    /\ Commit(emit_return(asm, stmt))
    /\ control_flow_stack' = with_values
    /\ frames' = advanced
    /\ UNCHANGED <<elems, fuel, errors, status>>

\* A call statement.
stmt_proc_call ==
    /\ AtStmt("proc_call")
    /\ Commit(emit_proc_call(asm, stmt, elems[stmt].call))
    /\ control_flow_stack' = with_values
    /\ frames' = advanced
    /\ UNCHANGED <<elems, fuel, errors, status>>

(***************************************************************************)
(* emit_element, case if_e.                                                *)
(***************************************************************************)

\* Lines 342-355: the branch on the predicate value in the block where
\* its evaluation ended, and the true block. The result names the block
\* predicate_block points at.
if_true_block(a, id) ==
    [asm |-> label(set_bb(add_predecessors(
                            emplace_back(
                              instr(a, a.bb,
                                    Ins("bz", <<id, "false">>, 0, id))),
                            Len(a.blocks) + 1, {a.bb}),
                          Len(a.blocks) + 1),
                   Len(a.blocks) + 1, <<id, "true">>),
     predicate_block |-> a.bb]

\* Lines 333-355: the predicate block, the predicate emitted through
\* &predicate_block, the branch, the true block.
if_entry(a, id, e, x) ==
    if_true_block(emit_expression(next_block(a, <<id, "entry">>), e, x), id)

\* A variant of if_true_jump that appends the jump whatever the block
\* ends in.
if_true_jump_always(a, id) ==
    instr(a, a.bb, Ins("jmp", <<id, "exit">>, 0, id))

\* Lines 361-367: the jump to the exit label unless the block the true
\* branch ended in ends in jmp or rts.
if_true_jump(a, id) ==
    IF ~is_current_instruction(a.blocks, a.bb, "jmp")
       /\ ~is_current_instruction(a.blocks, a.bb, "rts")
    THEN instr(a, a.bb, Ins("jmp", <<id, "exit">>, 0, id))
    ELSE a

\* Lines 369-373: the false block.
if_false_block(a, id, predicate_block) ==
    set_bb(label(add_predecessors(emplace_back(a), Len(a.blocks) + 1,
                                  {predicate_block}),
                 Len(a.blocks) + 1, <<id, "false">>),
           Len(a.blocks) + 1)

if_true_done(a, id, predicate_block) ==
    if_false_block(if_true_jump(a, id), id, predicate_block)

\* Line 380: the false block of an if without else.
if_no_false_branch(a, id) == instr(a, a.bb, Ins("nop", NoLabel, 0, id))

\* Lines 383-393: the edges and the exit block; the false branch ended in
\* the block a.bb.
if_exit(a, id, predicate_block, true_block) ==
    set_bb(add_successors(
             add_successors(
               label(add_predecessors(
                       emplace_back(
                         add_successors(a, predicate_block,
                                        {true_block, a.bb})),
                       Len(a.blocks) + 1, {true_block, a.bb}),
                     Len(a.blocks) + 1, <<id, "exit">>),
               true_block, {Len(a.blocks) + 1}),
             a.bb, {Len(a.blocks) + 1}),
           Len(a.blocks) + 1)

\* The lowering calls emit_element on a nested block.
call_block(r, op, id, stage, block) ==
    /\ Commit(r.asm)
    /\ frames' = advanced \o
          <<Frame(op, id, stage, r.predicate_block, r.body_block, 0,
                  r.flow_control, r.fallthrough_label, <<>>, 0),
            BlockCall(block)>>

\* What a lowering keeps in locals across the call.
Locals(a, predicate_block, body_block, flow_control, fallthrough_label) ==
    [asm |-> a, predicate_block |-> predicate_block,
     body_block |-> body_block, flow_control |-> flow_control,
     fallthrough_label |-> fallthrough_label]

if_locals(r) == Locals(r.asm, r.predicate_block, 0, 0, NoLabel)

stmt_if ==
    /\ AtStmt("if")
    /\ \E x \in Exprs(fuel), has_else \in BOOLEAN :
        /\ ExprCost(x) + (IF has_else THEN 1 ELSE 0) <= fuel
        /\ fuel' = fuel - ExprCost(x) - (IF has_else THEN 1 ELSE 0)
        /\ elems' = [elems EXCEPT ![stmt].flag = has_else]
               \o ExprElems(x, Len(elems) + 1, stmt, "predicate")
               \o <<Elem("block", stmt, "true", FALSE)>>
               \o (IF has_else THEN <<Elem("block", stmt, "false", FALSE)>>
                   ELSE <<>>)
        /\ call_block(if_locals(if_entry(asm, stmt, Len(elems) + 1, x)),
                      "if", stmt, "true",
                      Len(elems) + 1 + (IF x.kind \in {"id", "rel"}
                                        THEN 1 ELSE 3))
    /\ control_flow_stack' = with_values
    /\ UNCHANGED <<errors, status>>

\* The false branch of the if the true branch of which has returned.
false_branch_of(id) ==
    IF elems[id].flag
    THEN CHOOSE b \in 1..Len(elems) :
            elems[b].parent = id /\ elems[b].role = "false"
    ELSE 0

\* The true branch has returned and there is a false branch to emit.
if_else ==
    /\ Running /\ Top.op = "if" /\ Top.stage = "true"
    /\ false_branch_of(Top.id) # 0
    /\ Commit(if_true_done(asm, Top.id, Top.b1))
    /\ frames' = [frames EXCEPT ![Len(frames)] =
                     [@ EXCEPT !.stage = "false", !.b2 = bb]]
                 \o <<BlockCall(false_branch_of(Top.id))>>
    /\ UNCHANGED <<control_flow_stack, elems, fuel, errors, status>>

\* The true branch has returned and there is no false branch.
if_no_else ==
    /\ Running /\ Top.op = "if" /\ Top.stage = "true"
    /\ false_branch_of(Top.id) = 0
    /\ Commit(if_exit(if_no_false_branch(
                        if_true_done(asm, Top.id, Top.b1), Top.id),
                      Top.id, Top.b1, bb))
    /\ frames' = Pop(frames)
    /\ UNCHANGED <<control_flow_stack, elems, fuel, errors, status>>

\* The false branch has returned.
if_end ==
    /\ Running /\ Top.op = "if" /\ Top.stage = "false"
    /\ Commit(if_exit(asm, Top.id, Top.b1, Top.b2))
    /\ frames' = Pop(frames)
    /\ UNCHANGED <<control_flow_stack, elems, fuel, errors, status>>

(***************************************************************************)
(* emit_element, case while_e.                                             *)
(***************************************************************************)

\* Lines 780-786: the predicate block; the current block gets no
\* successor.
while_predicate_block(a, id) ==
    label(set_bb(add_predecessors(emplace_back(a), Len(a.blocks) + 1,
                                  {a.bb}),
                 Len(a.blocks) + 1),
          Len(a.blocks) + 1, <<id, "entry">>)

\* Lines 790-801: the branch in predicate_block, the body block.
while_body_block(a, id, predicate_block) ==
    Locals(label(set_bb(add_successors(
                          add_predecessors(
                            emplace_back(
                              instr(a, predicate_block,
                                    Ins("bz", <<id, "exit">>, 0, id))),
                            Len(a.blocks) + 1, {predicate_block}),
                          Len(a.blocks) + 1, {predicate_block}),
                        Len(a.blocks) + 1),
                 Len(a.blocks) + 1, <<id, "body">>),
           predicate_block, Len(a.blocks) + 1, 0, NoLabel)

while_entry(a, id, e, x) ==
    while_body_block(emit_expression(while_predicate_block(a, id), e, x),
                     id, Len(a.blocks) + 1)

\* Lines 805-816: the back-edge jump in body_block and the exit block.
while_exit(a, id, predicate_block, body_block) ==
    set_bb(add_successors(
             instr(label(add_predecessors(
                           emplace_back(
                             instr(a, body_block,
                                   Ins("jmp", <<id, "entry">>, 0, id))),
                           Len(a.blocks) + 1, {predicate_block}),
                         Len(a.blocks) + 1, <<id, "exit">>),
                   Len(a.blocks) + 1, Ins("nop", NoLabel, 0, id)),
             predicate_block, {body_block, Len(a.blocks) + 1}),
           Len(a.blocks) + 1)

stmt_while ==
    /\ AtStmt("while")
    /\ \E x \in Exprs(fuel) :
        /\ fuel' = fuel - ExprCost(x)
        /\ elems' = elems \o ExprElems(x, Len(elems) + 1, stmt, "predicate")
                          \o <<Elem("block", stmt, "body", FALSE)>>
        /\ call_block(while_entry(asm, stmt, Len(elems) + 1, x),
                      "while", stmt, "body",
                      Len(elems) + 1 + (IF x.kind \in {"id", "rel"}
                                        THEN 1 ELSE 3))
    /\ control_flow_stack' = push_flow_control(with_values,
           flow_control_t(<<stmt, "exit">>, <<stmt, "entry">>, FALSE))
    /\ UNCHANGED <<errors, status>>

while_end ==
    /\ Running /\ Top.op = "while"
    /\ Commit(while_exit(asm, Top.id, Top.b1, Top.b2))
    /\ control_flow_stack' = pop_flow_control(control_flow_stack)
    /\ frames' = Pop(frames)
    /\ UNCHANGED <<elems, fuel, errors, status>>

(***************************************************************************)
(* emit_element, case for_e over the range intrinsic with literal          *)
(* arguments. The operators the lowering builds (induction_init,           *)
(* comparison_op, induction_step, induction_assign) enter the element map  *)
(* and leave it when the lowering returns.                                 *)
(***************************************************************************)

Synthetic(kind, parent) == Elem(kind, parent, "synthetic", FALSE)

\* Lines 443-450: the init block and the induction variable's first value.
for_init_block(a, id) == emit_assignment(link_block(a), id)

\* Lines 502-524: the predicate block and the comparison. e is the id of
\* comparison_op.
for_predicate_block(a, id, e) ==
    emit_comparison(next_block(a, <<id, "entry">>), e)

\* Lines 525-534: the branch in predicate_block, the body block.
for_body_block(a, id, predicate_block) ==
    Locals(label(set_bb(add_predecessors(
                          emplace_back(
                            instr(a, predicate_block,
                                  Ins("bz", <<id, "exit">>, 0, id))),
                          Len(a.blocks) + 1, {predicate_block}),
                        Len(a.blocks) + 1),
                 Len(a.blocks) + 1, <<id, "body">>),
           predicate_block, Len(a.blocks) + 1, 0, NoLabel)

for_entry(a, id, e) ==
    for_body_block(for_predicate_block(for_init_block(a, id), id, e), id,
                   Len(a.blocks) + 2)

\* Lines 462-464: the operator of the induction step.
step_op_type(dir_value) == IF dir_value = 0 THEN "add" ELSE "subtract"

\* A variant of cmp_op_type that reads kind the other way round.
cmp_op_type_swapped(dir_value, kind_value) ==
    CASE kind_value = 1 /\ dir_value = 0 -> "less_than_or_equal"
      [] kind_value = 1 /\ dir_value = 1 -> "greater_than_or_equal"
      [] kind_value = 0 /\ dir_value = 0 -> "less_than"
      [] kind_value = 0 /\ dir_value = 1 -> "greater_than"
      [] OTHER -> "less_than"

\* Lines 465-498: the operator of the loop's comparison.
cmp_op_type(dir_value, kind_value) ==
    CASE kind_value = 0 /\ dir_value = 0 -> "less_than_or_equal"
      [] kind_value = 0 /\ dir_value = 1 -> "greater_than_or_equal"
      [] kind_value = 1 /\ dir_value = 0 -> "less_than"
      [] kind_value = 1 /\ dir_value = 1 -> "greater_than"
      [] OTHER -> "less_than"

\* emit_arithmetic_operator: the instruction of an add or a subtract.
arithmetic_op(type) == IF type = "add" THEN "add" ELSE "sub"

\* Lines 535-562: the step block, the induction step, the back-edge jump.
for_step_block(a, id, predicate_block, body_block, step) ==
    instr(emit_assignment(
            instr(set_bb(add_successors(
                           add_successors(
                             add_predecessors(emplace_back(a),
                                              Len(a.blocks) + 1,
                                              {body_block}),
                             Len(a.blocks) + 1, {predicate_block}),
                           body_block, {Len(a.blocks) + 1}),
                         Len(a.blocks) + 1),
                  Len(a.blocks) + 1,
                  Ins(arithmetic_op(step), NoLabel, 0, id)),
            id),
          Len(a.blocks) + 1, Ins("jmp", <<id, "entry">>, 0, id))

\* Lines 567-574: the exit block.
for_exit_block(a, id, predicate_block, body_block) ==
    set_bb(add_successors(
             label(add_predecessors(emplace_back(a), Len(a.blocks) + 1,
                                    {predicate_block}),
                   Len(a.blocks) + 1, <<id, "exit">>),
             predicate_block, {body_block, Len(a.blocks) + 1}),
           Len(a.blocks) + 1)

for_exit(a, id, predicate_block, body_block, step) ==
    for_exit_block(for_step_block(a, id, predicate_block, body_block, step), id,
                   predicate_block, body_block)

stmt_for ==
    /\ AtStmt("for")
    /\ elems' = elems \o <<Synthetic("assign", stmt), Synthetic("rel", stmt),
                           Elem("block", stmt, "body", FALSE)>>
    /\ call_block(for_entry(asm, stmt, Len(elems) + 2), "for", stmt, "body",
                  Len(elems) + 3)
    /\ control_flow_stack' = push_flow_control(with_values,
           flow_control_t(<<stmt, "exit">>, <<stmt, "entry">>, FALSE))
    /\ UNCHANGED <<fuel, errors, status>>

for_end ==
    /\ Running /\ Top.op = "for"
    /\ Commit(for_exit(asm, Top.id, Top.b1, Top.b2, step_op_type(0)))
    /\ elems' = [i \in 1..Len(elems) |->
                    IF elems[i].role = "synthetic" /\ elems[i].parent = Top.id
                    THEN [elems[i] EXCEPT !.role = "removed"] ELSE elems[i]]
                \o <<[Synthetic("add", Top.id) EXCEPT !.role = "removed"],
                     [Synthetic("assign", Top.id) EXCEPT !.role = "removed"]>>
    /\ control_flow_stack' = pop_flow_control(control_flow_stack)
    /\ frames' = Pop(frames)
    /\ UNCHANGED <<fuel, errors, status>>

(***************************************************************************)
(* emit_element, cases switch_e and case_e.                                *)
(***************************************************************************)

\* Lines 869-875.
switch_entry(a, id) ==
    Locals(next_block(a, <<id, "entry">>), Len(a.blocks) + 1, 0, 0, NoLabel)

\* Lines 879-886.
switch_exit(a, id, entry_block) ==
    set_bb(instr(label(add_predecessors(emplace_back(a), Len(a.blocks) + 1,
                                        {entry_block}),
                       Len(a.blocks) + 1, <<id, "exit">>),
                 Len(a.blocks) + 1, Ins("nop", NoLabel, 0, id)),
           Len(a.blocks) + 1)

stmt_switch ==
    /\ AtStmt("switch")
    /\ elems' = elems \o <<Elem("block", stmt, "scope", FALSE)>>
    /\ call_block(switch_entry(asm, stmt), "switch", stmt, "scope",
                  Len(elems) + 1)
    /\ control_flow_stack' = push_flow_control(with_values,
           flow_control_t(<<stmt, "exit">>, NoLabel, TRUE))
    /\ UNCHANGED <<fuel, errors, status>>

switch_end ==
    /\ Running /\ Top.op = "switch"
    /\ Commit(switch_exit(asm, Top.id, Top.b1))
    /\ control_flow_stack' = pop_flow_control(control_flow_stack)
    /\ frames' = Pop(frames)
    /\ UNCHANGED <<elems, fuel, errors, status>>

\* Lines 639-654: the true-label of the case that follows, if one follows.
fallthrough_label_of(is_default_case, next) ==
    IF ~is_default_case /\ next # 0 /\ elems[next].kind = "case"
    THEN <<next, "true">> ELSE NoLabel

\* Lines 664-672: the predicate block after the predicate block of the
\* case before, or after the current block.
case_predicate_block(a, predecessor) ==
    set_bb(IF predecessor # nullptr
           THEN add_predecessors(
                  add_successors(emplace_back(a), predecessor,
                                 {Len(a.blocks) + 1}),
                  Len(a.blocks) + 1, {predecessor})
           ELSE add_predecessors(emplace_back(a), Len(a.blocks) + 1, {a.bb}),
           Len(a.blocks) + 1)

\* Lines 664-686: the predicate of a case with an expression. e is the id
\* of equals_op.
case_predicate(a, id, e, predecessor) ==
    instr(emit_comparison(case_predicate_block(a, predecessor), e),
          Len(a.blocks) + 1, Ins("bz", <<id, "false">>, 0, id))

\* Lines 689-694: the true block.
case_true(a, id, predicate_block, flow_control, fallthrough_label) ==
    Locals(label(set_bb(add_predecessors(emplace_back(a), Len(a.blocks) + 1,
                                         {a.bb}),
                        Len(a.blocks) + 1),
                 Len(a.blocks) + 1, <<id, "true">>),
           predicate_block, Len(a.blocks) + 1, flow_control,
           fallthrough_label)

\* Lines 698-705: the jump that ends the case.
case_jump(a, id, is_default_case, true_block, fallthrough, fallthrough_label, exit_label) ==
    IF is_default_case THEN a
    ELSE IF fallthrough
    THEN add_cfg_edge(
           instr(a, true_block, Ins("jmp", fallthrough_label, 0, id)),
           true_block, fallthrough_label)
    ELSE instr(a, true_block, Ins("jmp", exit_label, 0, id))

\* Lines 707-720: the exit block and the edges.
case_exit_block(a, id, predicate_block, true_block) ==
    set_bb(IF predicate_block # nullptr
           THEN add_successors(
                  add_predecessors(
                    add_successors(
                      add_predecessors(
                        label(emplace_back(a), Len(a.blocks) + 1,
                              <<id, "false">>),
                        true_block, {predicate_block}),
                      true_block, {Len(a.blocks) + 1}),
                    Len(a.blocks) + 1, {predicate_block}),
                  predicate_block, {true_block, Len(a.blocks) + 1})
           ELSE add_predecessors(
                  add_successors(
                    add_predecessors(
                      label(emplace_back(a), Len(a.blocks) + 1,
                            <<id, "false">>),
                      true_block, {predicate_block}),
                    true_block, {Len(a.blocks) + 1}),
                  Len(a.blocks) + 1, {predicate_block}),
           Len(a.blocks) + 1)

case_exit(a, id, is_default_case, predicate_block, true_block, fallthrough, fallthrough_label, exit_label) ==
    case_exit_block(
      case_jump(a, id, is_default_case, true_block, fallthrough,
                fallthrough_label, exit_label),
      id, predicate_block, true_block)

\* Lines 628-694 on the flow-control record: fallthrough is cleared and a
\* case with an expression becomes the predecessor of the next.
case_record(record, is_default_case, predicate_block) ==
    [record EXCEPT !.fallthrough = FALSE,
                   !.predecessor = IF is_default_case THEN @
                                   ELSE predicate_block]

stmt_case ==
    /\ AtStmt("case")
    /\ IF current_flow_control(with_values) = 0
       THEN Abort(asm, with_values, advanced, <<>>)
       ELSE IF ~elems[stmt].flag /\ ~Top_record(with_values).switch_expression
       THEN Crash
       ELSE IF elems[stmt].flag
       THEN /\ call_block(
                 case_true(asm, stmt, nullptr,
                           current_flow_control(with_values), NoLabel),
                 "case", stmt, "body", Len(elems) + 1)
            /\ control_flow_stack' =
                  [with_values EXCEPT ![Len(with_values)] =
                      case_record(@, TRUE, nullptr)]
            /\ elems' = elems \o <<Elem("block", stmt, "body", FALSE)>>
            /\ UNCHANGED <<fuel, errors, status>>
       ELSE /\ call_block(
                 case_true(
                   case_predicate(asm, stmt, Len(elems) + 1,
                                  Top_record(with_values).predecessor),
                   stmt, Len(blocks) + 1,
                   current_flow_control(with_values),
                   fallthrough_label_of(FALSE,
                       Top_record(with_values).next_element)),
                 "case", stmt, "body", Len(elems) + 2)
            /\ control_flow_stack' =
                  [with_values EXCEPT ![Len(with_values)] =
                      case_record(@, FALSE, Len(blocks) + 1)]
            /\ elems' = elems
                  \o <<[Synthetic("rel", stmt) EXCEPT !.role = "removed"],
                       Elem("block", stmt, "body", FALSE)>>
            /\ UNCHANGED <<fuel, errors, status>>

\* The case body has returned.
case_end ==
    /\ Running /\ Top.op = "case"
    /\ \/ /\ Commit(case_exit(asm, Top.id, elems[Top.id].flag, Top.b1,
                              Top.b2, control_flow_stack[Top.fc].fallthrough,
                              Top.aux, control_flow_stack[Top.fc].exit_label))
          /\ frames' = Pop(frames)
          /\ UNCHANGED <<control_flow_stack, elems, fuel, errors, status>>
       \* fallthrough_label is null and is dereferenced
       \/ /\ ~elems[Top.id].flag /\ control_flow_stack[Top.fc].fallthrough
          /\ Top.aux = NoLabel
          /\ Crash

\* A variant of emit_deferred that takes the working stack bottom first.
RECURSIVE emit_deferred_bottom_first(_, _)
emit_deferred_bottom_first(a, working_stack) ==
    IF working_stack = <<>> THEN a
    ELSE emit_deferred_bottom_first(emit_assignment(a, Head(working_stack)),
                                    Tail(working_stack))

\* The deferred expressions, top of the working stack first.
RECURSIVE emit_deferred(_, _)
emit_deferred(a, working_stack) ==
    IF working_stack = <<>> THEN a
    ELSE emit_deferred(
           emit_assignment(a, working_stack[Len(working_stack)]),
           Pop(working_stack))

\* end_stack_frame.
end_stack_frame(a, block) ==
    IF ~elems[block].flag THEN a
    ELSE LET current_block == a.bb
             a1 == emplace_back(a)
             exit_block == last(a1)
             a2 == add_predecessors(a1, exit_block, {current_block})
         IN IF ~is_current_instruction(a.blocks, current_block, "rts")
            THEN instr(instr(a2, exit_block,
                             Ins("move_sp_fp", NoLabel, 0, block)),
                       exit_block, Ins("pop_fp", NoLabel, 0, block))
            ELSE a2

\* emit_block after the last statement: the deferred expressions, then
\* end_stack_frame, and the call returns.
emit_block_end ==
    /\ Running /\ Top.op = "block" /\ Top.stage = "stmts"
    /\ Top.idx > Len(Top.stmts)
    /\ LET working_stack == elems[Top.id].defer_stack
       IN Commit(end_stack_frame(emit_deferred(asm, working_stack), Top.id))
    /\ frames' = Pop(frames)
    /\ UNCHANGED <<control_flow_stack, elems, fuel, errors, status>>

Next ==
    \/ emit_begin
    \/ emit_block_begin
    \/ stmt_defer
    \/ stmt_assign
    \/ stmt_break
    \/ stmt_continue
    \/ stmt_fallthrough
    \/ stmt_return
    \/ stmt_proc_call
    \/ stmt_if
    \/ if_else
    \/ if_no_else
    \/ if_end
    \/ stmt_while
    \/ while_end
    \/ stmt_for
    \/ for_end
    \/ stmt_switch
    \/ switch_end
    \/ stmt_case
    \/ case_end
    \/ emit_block_end
    \/ emit_end

Spec == Init /\ [][Next]_vars

(***************************************************************************)
(* A single call site, lowered on its own: the callee and the arguments    *)
(* range over every shape emit_element (proc_call) distinguishes.          *)
(***************************************************************************)

\* Live locals of the caller, arguments of the call.
MaxLocals == 2
MaxArgs == 2

\* Sizes in bytes of an argument's type: a word, and a composite that
\* align rounds up.
ArgSizes == {8, 12}

Args == [kind : {"scalar", "composite", "list"}, size : ArgSizes]

Calls ==
    [is_foreign : BOOLEAN, found : BOOLEAN, has_return : BOOLEAN,
     locals : 0..MaxLocals, args : SeqsUpTo(Args, MaxArgs)]

\* The call element comes into view in a block of its own.
call_begin ==
    /\ status = "init"
    /\ \E c \in Calls :
        /\ ~c.is_foreign => c.found
        /\ elems' = <<[Elem("proc_call", 0, "stmt", FALSE) EXCEPT
                          !.call = c]>>
    /\ blocks' = <<make>>
    /\ bb' = 1
    /\ frames' = <<Frame("proc_call", 1, "enter", 0, 0, 0, 0, NoLabel,
                         <<>>, 0)>>
    /\ status' = "emitting"
    /\ UNCHANGED <<control_flow_stack, fuel, errors, cfg_edges>>

\* emit_element on the call.
call_emit_done(a) ==
    /\ Commit(a)
    /\ status' = IF a.ok THEN "ok" ELSE "failed"
    /\ errors' = errors \o a.errs

call_emit ==
    /\ Running /\ Top.op = "proc_call"
    /\ call_emit_done(emit_proc_call(asm, Top.id, elems[Top.id].call))
    /\ frames' = <<>>
    /\ UNCHANGED <<control_flow_stack, elems, fuel>>

NextCall == call_begin \/ call_emit

SpecCall == Init /\ [][NextCall]_vars

(***************************************************************************)
(* A single for loop over range(start, stop, step, dir, kind): the         *)
(* operators the lowering builds and removes, and the arguments it reads.  *)
(***************************************************************************)

\* Largest value of an integer constant handed to range.
MaxRangeValue == 2

\* builder.make_binary_operator: a new element with a fresh id.
make_binary_operator(map, parent_scope, type, lhs, rhs) ==
    Append(map, [Node(type, parent_scope, "synthetic", FALSE) EXCEPT
                    !.operands = <<lhs, rhs>>])

\* element::make_non_owning.
make_non_owning(map, id) == [map EXCEPT ![id].flag = TRUE]

\* element_map::remove: the element and the children it owns leave the map.
RECURSIVE remove(_, _)
remove(map, id) ==
    IF map[id].flag \/ map[id].operands = <<>>
    THEN [map EXCEPT ![id].role = "removed"]
    ELSE remove(remove([map EXCEPT ![id].role = "removed"],
                       map[id].operands[1]),
                map[id].operands[2])

\* for_e->induction_decl()->identifier(), range->arguments()->
\* param_by_name(name), for_e->body().
induction_identifier(map, id) == map[id].operands[1]
param_index(name) ==
    CASE name = "start" -> 2 [] name = "stop" -> 3 [] name = "step" -> 4
      [] name = "dir" -> 5 [] OTHER -> 6
param_by_name(map, id, name) == map[id].operands[param_index(name)]

\* element::as_integer: only an integer constant has an integer value.
as_integer(map, arg) == map[arg].kind = "integer_literal"

\* How far the lowering gets: the return at the dir argument, at the kind
\* argument, at the body, or the end.
for_range_stage(map, id, body_ok) ==
    IF ~as_integer(map, param_by_name(map, id, "dir")) THEN "dir"
    ELSE IF ~as_integer(map, param_by_name(map, id, "kind")) THEN "kind"
    ELSE IF ~body_ok THEN "body"
    ELSE "done"

dir_value(map, id) == map[param_by_name(map, id, "dir")].value
kind_value(map, id) == map[param_by_name(map, id, "kind")].value

\* Lines 434-441: induction_init.
with_induction_init(map, id) ==
    make_non_owning(
      make_binary_operator(map, map[id].parent, "assignment",
                           induction_identifier(map, id),
                           param_by_name(map, id, "start")),
      Len(map) + 1)

\* Lines 507-513: comparison_op.
with_comparison_op(map, id) ==
    make_non_owning(
      make_binary_operator(map, map[id].parent,
                           cmp_op_type(dir_value(map, id),
                                       kind_value(map, id)),
                           induction_identifier(map, id),
                           param_by_name(map, id, "stop")),
      Len(map) + 1)

\* Lines 541-553: induction_step and induction_assign.
with_induction_step(map, id) ==
    make_non_owning(
      make_non_owning(
        make_binary_operator(
          make_binary_operator(map, map[id].parent,
                               step_op_type(dir_value(map, id)),
                               induction_identifier(map, id),
                               param_by_name(map, id, "step")),
          map[id].parent, "assignment", induction_identifier(map, id),
          Len(map) + 1),
        Len(map) + 1),
      Len(map) + 2)

\* A variant of for_range_elements whose return at the body leaves
\* comparison_op in the map.
for_range_elements_leaking(map, id, stage) ==
    CASE stage \in {"dir", "kind"} ->
           remove(with_induction_init(map, id), Len(map) + 1)
      [] stage = "body" ->
           remove(with_comparison_op(with_induction_init(map, id), id),
                  Len(map) + 1)
      [] OTHER ->
           remove(remove(remove(remove(
             with_induction_step(
               with_comparison_op(with_induction_init(map, id), id), id),
             Len(map) + 4), Len(map) + 3), Len(map) + 2), Len(map) + 1)

\* The element map when the lowering returns: the operators built up to
\* the return, and the removals its scope guards run, the last one first.
for_range_elements(map, id, stage) ==
    CASE stage \in {"dir", "kind"} ->
           remove(with_induction_init(map, id), Len(map) + 1)
      [] stage = "body" ->
           remove(remove(
             with_comparison_op(with_induction_init(map, id), id),
             Len(map) + 2), Len(map) + 1)
      [] OTHER ->
           remove(remove(remove(remove(
             with_induction_step(
               with_comparison_op(with_induction_init(map, id), id), id),
             Len(map) + 4), Len(map) + 3), Len(map) + 2), Len(map) + 1)

for_range_done(r, id, step) ==
    for_exit(r.asm, id, r.predicate_block, r.body_block, step)

\* The blocks when the lowering returns.
for_range_blocks(a, id, comparison_op, stage, step) ==
    CASE stage \in {"dir", "kind"} -> for_init_block(a, id)
      [] stage = "body" -> for_entry(a, id, comparison_op).asm
      [] OTHER -> for_range_done(for_entry(a, id, comparison_op), id, step)

\* The arguments of range: integer constants and identifier references.
RangeArgs ==
    {[Node("integer_literal", 1, "argument", FALSE) EXCEPT !.value = v] :
        v \in 0..MaxRangeValue}
    \cup {Node("identifier_reference", 1, "argument", FALSE)}

\* A for loop over range, with a body that emits without an error or with
\* one.
range_begin ==
    /\ status = "init"
    /\ \E start_arg, dir_arg, kind_arg \in RangeArgs, body_ok \in BOOLEAN :
        /\ elems' = <<[Node("for", 0, "stmt", FALSE) EXCEPT
                          !.operands = <<2, 3, 4, 5, 6, 7, 8>>],
                      Node("identifier", 1, "induction", FALSE),
                      start_arg,
                      Node("identifier_reference", 1, "argument", FALSE),
                      [Node("integer_literal", 1, "argument", FALSE) EXCEPT
                          !.value = 1],
                      dir_arg, kind_arg,
                      Node("block", 1, "body", FALSE)>>
        /\ frames' = <<Frame("for_range", 1,
                             IF body_ok THEN "body_ok" ELSE "body_fails",
                             0, 0, 0, 0, NoLabel, <<>>, 0)>>
    /\ blocks' = <<make>>
    /\ bb' = 1
    /\ status' = "emitting"
    /\ UNCHANGED <<control_flow_stack, fuel, errors, cfg_edges>>

\* emit_element on the loop.
range_emit_done(id, stage) ==
    /\ Commit(for_range_blocks(asm, id, Len(elems) + 2, stage,
                               step_op_type(dir_value(elems, id))))
    /\ elems' = for_range_elements(elems, id, stage)
    /\ status' = IF stage = "done" THEN "ok" ELSE "failed"
    /\ errors' = IF stage = "body" THEN Append(errors, "X000") ELSE errors

range_emit ==
    /\ Running /\ Top.op = "for_range"
    /\ range_emit_done(Top.id,
                       for_range_stage(elems, Top.id, Top.stage = "body_ok"))
    /\ control_flow_stack' =
           pop_flow_control(push_flow_control(control_flow_stack,
               flow_control_t(<<Top.id, "exit">>, <<Top.id, "entry">>,
                              FALSE)))
    /\ frames' = <<>>
    /\ UNCHANGED fuel

NextFor == range_begin \/ range_emit

SpecFor == Init /\ [][NextFor]_vars

(***************************************************************************)
(* emit() over a whole program: a module whose scope holds calls, and      *)
(* procedures whose scopes hold calls. The data tables are those of a      *)
(* program without used types, string literals and module variables.       *)
(***************************************************************************)

\* Number of procedures of the program, and of calls in it.
MaxProcs == 2
MaxCalls == 3

\* emit_bootstrap_block.
emit_bootstrap_block(a) ==
    instr(emplace_back(a), Len(a.blocks) + 1, Ins("jmp", StartLabel, 0, 0))

\* emit_type_table without used types.
emit_type_table(a) ==
    instr(label(instr(emplace_back(a), Len(a.blocks) + 1,
                      Ins("section", <<0, "ro_data">>, 0, 0)),
                Len(a.blocks) + 1, <<0, "_ti_array">>),
          Len(a.blocks) + 1, Ins("qwords", NoLabel, 0, 0))

\* A variant of emit_interned_string_table that hands no block to the
\* assembler.
emit_interned_string_table_kept(a) == a

\* emit_interned_string_table without interned strings.
emit_interned_string_table(a) ==
    instr(emplace_back(a), Len(a.blocks) + 1,
          Ins("section", <<0, "interned string literals">>, 0, 0))

\* emit_section_tables without module variables.
emit_section_tables(a) == emplace_back(a)

\* p->add_successors({block}) for every p of a block list.
add_successors_each(a, predecessors, block) ==
    [a EXCEPT !.blocks =
        [b \in DOMAIN @ |->
            IF b \in predecessors
            THEN [@[b] EXCEPT !.successors = @ \cup {block}] ELSE @[b]]]

\* emit_start_block.
emit_start_block(a, predecessors) ==
    instr(label(add_successors_each(
                  add_predecessors(emplace_back(a), Len(a.blocks) + 1,
                                   predecessors),
                  predecessors, Len(a.blocks) + 1),
                Len(a.blocks) + 1, StartLabel),
          Len(a.blocks) + 1, Ins("move_fp_sp", NoLabel, 0, 0))

\* emit_end_block.
emit_end_block(a, predecessors) ==
    instr(label(add_predecessors(
                  add_successors_each(emplace_back(a), predecessors,
                                      Len(a.blocks) + 1),
                  Len(a.blocks) + 1, predecessors),
                Len(a.blocks) + 1, EndLabel),
          Len(a.blocks) + 1, Ins("exit", NoLabel, 0, 0))

\* The call statements of a scope, in source order.
statements(map, block) ==
    SelectSeq([i \in 1..Len(map) |-> i],
              LAMBDA c : map[c].kind = "proc_call" /\ map[c].parent = block)

\* The loop of emit_block over call statements.
RECURSIVE emit_statements(_, _, _, _)
emit_statements(a, map, stmts, i) ==
    IF i = 0 THEN a
    ELSE emit_proc_call(emit_statements(a, map, stmts, i - 1), stmts[i],
                        map[stmts[i]].call)

\* emit_block on a scope without defers.
emit_block(a, map, block) ==
    end_stack_frame(
      emit_statements(begin_stack_frame(a, block), map,
                      statements(map, block),
                      Len(statements(map, block))),
      block)

\* proc_instance->scope(), module->scope().
scope(e) == e + 1

\* find_call_site: the module or procedure type whose scope holds the call.
RECURSIVE find_call_site(_, _)
find_call_site(map, e) ==
    IF map[e].parent = 0 THEN nullptr
    ELSE IF map[map[e].parent].kind \in {"module", "proc_type"}
    THEN map[e].parent
    ELSE find_call_site(map, map[e].parent)

\* proc_call->procedure_type().
procedure_type(map, proc_call) == map[proc_call].value

\* Lines 1997-2009: an edge for every call of a native procedure that is
\* not made from the procedure's own scope.
proc_call_edges(map) ==
    {<<find_call_site(map, c), c>> :
        c \in {c \in 1..Len(map) :
                  /\ map[c].kind = "proc_call"
                  /\ ~map[c].call.is_foreign
                  /\ find_call_site(map, c) # procedure_type(map, c)}}

find_root_edges(map, edges) ==
    {edge \in edges : map[edge[1]].kind = "module"}

\* What a walk leaves: the calls inserted, and whether the recursion
\* came back to a site it is still walking, which it never leaves.
walked(own, below) ==
    [calls |-> own \cup UNION {w.calls : w \in below},
     overflow |-> \E w \in below : w.overflow]

\* walk_call_graph_edges. path holds the sites of the active calls.
RECURSIVE walk_call_graph_edges(_, _, _, _)
walk_call_graph_edges(map, edges, site, path) ==
    IF site \in path THEN [calls |-> {}, overflow |-> TRUE]
    ELSE walked({edge[2] : edge \in {x \in edges : x[1] = site}},
                {walk_call_graph_edges(map, edges,
                                       procedure_type(map, edge[2]),
                                       path \cup {site}) :
                    edge \in {x \in edges : x[1] = site}})

\* Lines 2014-2017: a walk from the site of every root edge.
walk_roots(map, edges) ==
    walked({}, {walk_call_graph_edges(map, edges, edge[1], {}) :
                  edge \in find_root_edges(map, edges)})

\* procedure_type::instance_for: a procedure's one instance.
instance_for(map, proc_call) == procedure_type(map, proc_call)

\* Lines 2019-2024.
proc_instance_set(map, proc_call_set) ==
    {instance_for(map, c) : c \in proc_call_set}

\* emit_procedure_prologue.
emit_procedure_prologue(a, proc_type) ==
    label(a, a.bb, <<proc_type, "proc">>)

\* emit_procedure_epilogue.
emit_procedure_epilogue(a, map, proc_type) ==
    IF map[proc_type].call.has_return THEN a
    ELSE set_bb(instr(add_predecessors(emplace_back(a), Len(a.blocks) + 1,
                                       {a.bb}),
                      Len(a.blocks) + 1, Ins("rts", NoLabel, 0, proc_type)),
                Len(a.blocks) + 1)

\* emit_procedure_instance.
emit_procedure_instance(a, map, instance) ==
    emit_procedure_epilogue(
      emit_block(emit_procedure_prologue(a, instance), map,
                 scope(instance)),
      map, instance)

\* Lines 2029-2036: a block for every instance of the set, by the set's
\* order.
new_block(a) == set_bb(emplace_back(a), Len(a.blocks) + 1)

RECURSIVE emit_instances(_, _, _, _)
emit_instances(a, map, order, i) ==
    IF i = 0 THEN a
    ELSE emit_procedure_instance(
           new_block(emit_instances(a, map, order, i - 1)), map, order[i])

\* The orders in which a set may be iterated.
Orders(S) ==
    {order \in [1..Cardinality(S) -> S] :
        \A i, j \in 1..Cardinality(S) : i # j => order[i] # order[j]}

\* emit_implicit_blocks of a program of one module.
emit_implicit_blocks(a, map, module, predecessors) ==
    add_successors_each(
      add_predecessors(
        emit_block(
          set_bb(label(emplace_back(a), Len(a.blocks) + 1,
                       <<scope(module), "implicit">>),
                 Len(a.blocks) + 1),
          map, scope(module)),
        Len(a.blocks) + 1, predecessors),
      predecessors, Len(a.blocks) + 1)

\* The elements of a program: the module (id 1) and its scope, every
\* procedure type and its scope, and the calls, each in the scope of its
\* site. A site or callee k > 0 is the k-th procedure, site 0 the module.
proc_type_id(k) == 2 * k + 1

RECURSIVE SeqOf(_)
SeqOf(S) ==
    IF S = {} THEN <<>>
    ELSE <<CHOOSE x \in S : TRUE>> \o SeqOf(S \ {CHOOSE x \in S : TRUE})

procedure(is_foreign, has_return) ==
    [Node("proc_type", 1, "proc", FALSE) EXCEPT
        !.call = Call(is_foreign, TRUE, has_return, 0, <<>>)]

procedure_call(site, callee, is_foreign, has_return) ==
    [Node("proc_call", scope(IF site = 0 THEN 1 ELSE proc_type_id(site)),
          "stmt", FALSE) EXCEPT
        !.value = proc_type_id(callee),
        !.call = Call(is_foreign, TRUE, has_return, 0, <<>>)]

program(foreign, has_return, has_stack_frame, calls) ==
    <<Node("module", 0, "module", FALSE), Node("block", 1, "scope", FALSE)>>
    \o [i \in 1..(2 * MaxProcs) |->
          IF i % 2 = 1
          THEN procedure(foreign[(i + 1) \div 2], has_return)
          ELSE Node("block", i + 1, "scope", has_stack_frame)]
    \o [i \in 1..Len(calls) |->
          procedure_call(calls[i][1], calls[i][2], foreign[calls[i][2]],
                         has_return)]

\* The programs: up to MaxCalls calls, none of them from a foreign
\* procedure.
program_begin ==
    /\ status = "init"
    /\ \E foreign \in [1..MaxProcs -> BOOLEAN],
          has_return, has_stack_frame \in BOOLEAN,
          calls \in SUBSET ((0..MaxProcs) \X (1..MaxProcs)) :
        /\ Cardinality(calls) <= MaxCalls
        /\ \A c \in calls : c[1] # 0 => ~foreign[c[1]]
        /\ elems' = program(foreign, has_return, has_stack_frame,
                            SeqOf(calls))
    /\ frames' = <<Frame("emit_program", 1, "tables", 0, 0, 0, 0, NoLabel,
                         <<>>, 0)>>
    /\ status' = "emitting"
    /\ UNCHANGED <<blocks, bb, control_flow_stack, fuel, errors, cfg_edges>>

\* emit(): the bootstrap block and the three tables.
emit_tables ==
    /\ Running /\ Top.op = "emit_program" /\ Top.stage = "tables"
    /\ Commit(emit_section_tables(emit_interned_string_table(
                emit_type_table(emit_bootstrap_block(asm)))))
    /\ frames' = [frames EXCEPT ![Len(frames)].stage = "procedure_types",
                                ![Len(frames)].b1 = Len(blocks) + 1]
    /\ UNCHANGED <<control_flow_stack, elems, fuel, errors, status>>

\* emit_procedure_types: the walk never returns, or the instances of the
\* calls it found are emitted.
emit_procedure_types_walked(w) ==
    IF w.overflow THEN Crash
    ELSE /\ \E order \in Orders(proc_instance_set(elems, w.calls)) :
              Commit(emit_instances(asm, elems, order, Len(order)))
         /\ frames' = [frames EXCEPT ![Len(frames)].stage = "start"]
         /\ UNCHANGED <<control_flow_stack, elems, fuel, errors, status>>

emit_procedure_types ==
    /\ Running /\ Top.op = "emit_program" /\ Top.stage = "procedure_types"
    /\ emit_procedure_types_walked(
         walk_roots(elems, proc_call_edges(elems)))

\* emit(): the start block, the implicit block of the module, the end
\* block.
emit_finish ==
    /\ Running /\ Top.op = "emit_program" /\ Top.stage = "start"
    /\ Commit(emit_end_block(
                emit_implicit_blocks(emit_start_block(asm, {Top.b1}),
                                     elems, Top.id, {Len(blocks) + 1}),
                {Len(blocks) + 2}))
    /\ frames' = <<>>
    /\ status' = "ok"
    /\ UNCHANGED <<control_flow_stack, elems, fuel, errors>>

NextEmit ==
    \/ program_begin
    \/ emit_tables
    \/ emit_procedure_types
    \/ emit_finish

SpecEmit == Init /\ [][NextEmit]_vars

(***************************************************************************)
(* Types, and the expressions that emit no code of their own: identifier   *)
(* references, integer literals and member access.                         *)
(***************************************************************************)

MaxChain == 2

\* What the emitter reads of a compiler::type: the base type of a pointer
\* is a sequence of one type, the fields of a composite a sequence.
Type(element_type, name, size, signed, class, fields, base) ==
    [element_type |-> element_type, name |-> name, size_in_bytes |-> size,
     is_signed |-> signed, number_class |-> class, fields |-> fields,
     base |-> base]

numeric_type(name, size, signed, class) ==
    Type("numeric_type", name, size, signed, class, <<>>, <<>>)

\* numeric_type::s_type_properties.
s_type_properties ==
    {numeric_type("u0", 0, FALSE, "integer"),
     numeric_type("u8", 1, FALSE, "integer"),
     numeric_type("u16", 2, FALSE, "integer"),
     numeric_type("u32", 4, FALSE, "integer"),
     numeric_type("u64", 8, FALSE, "integer"),
     numeric_type("s8", 1, TRUE, "integer"),
     numeric_type("s16", 2, TRUE, "integer"),
     numeric_type("s32", 4, TRUE, "integer"),
     numeric_type("s64", 8, TRUE, "integer"),
     numeric_type("f32", 4, TRUE, "floating_point"),
     numeric_type("f64", 8, TRUE, "floating_point")}

numeric(name) == CHOOSE t \in s_type_properties : t.name = name

\* A field of a composite type.
field(name, type, start_offset) ==
    [name |-> name, type |-> type, start_offset |-> start_offset]

\* composite_type::on_initialize: the size is the sum of the field sizes;
\* type::on_number_class gives none, type::is_signed false.
RECURSIVE fields_size(_, _)
fields_size(fields, i) ==
    IF i = 0 THEN 0
    ELSE fields_size(fields, i - 1) + fields[i].type.size_in_bytes

composite_type(name, fields) ==
    Type("composite_type", name, fields_size(fields, Len(fields)), FALSE,
         "none", fields, <<>>)

\* pointer_type::on_initialize and on_number_class.
pointer_type(base) ==
    Type("pointer_type", "^" \o base.name, 8, FALSE, "integer", <<>>,
         <<base>>)

is_pointer_type(t) == t.element_type = "pointer_type"

\* type::is_composite_type, and its overrides in composite_type and
\* pointer_type.
RECURSIVE is_composite_type(_)
is_composite_type(t) ==
    IF t.element_type = "pointer_type" THEN is_composite_type(t.base[1])
    ELSE t.element_type = "composite_type"

\* field_map_t::find_by_name: the index of the field, 0 for none.
find_by_name(fields, name) ==
    IF \E i \in DOMAIN fields : fields[i].name = name
    THEN CHOOSE i \in DOMAIN fields : fields[i].name = name
    ELSE 0

\* point :: struct { x:s32; y:s32; }, a struct of two points, and a
\* pointer to a point.
point == composite_type("point", <<field("x", numeric("s32"), 0), field("y", numeric("s32"), 4)>>)
rect == composite_type("rect", <<field("a", point, 0), field("b", point, 8)>>)

\* The type a member access goes into: the base type of a pointer.
accessed_type(t) == IF is_pointer_type(t) THEN t.base[1] ELSE t

\* element::infer_type for the expressions below: an identifier reference
\* has its declaration's type, a literal its own, a cast the target type;
\* binary_operator::on_infer_type gives a member access the type of its
\* rhs, the reference to the field.
RECURSIVE infer_type(_, _)
infer_type(map, e) ==
    IF map[e].kind = "member_access"
    THEN infer_type(map, map[e].operands[2])
    ELSE map[e].type

\* An operand: a named reference to a local, an immediate, an offset.
make_named_ref(name, size) == [kind |-> "local", name |-> name, size |-> size]
instruction_operand_t(value) == [kind |-> "imm", value |-> value]
offset(value) == [kind |-> "offset", value |-> value]

\* An instruction with operands.
InsOf(op, operands, by) ==
    [op |-> op, label |-> NoLabel, n |-> 0, by |-> by,
     operands |-> operands]

\* emit_result_t.
emit_result_t(operands, inferred_type) ==
    [operands |-> operands, inferred_type |-> inferred_type]

\* Lines 1291-1302 and 1684-1691: an identifier reference is the named
\* reference of its identifier, a qword for a composite.
identifier(map, e) ==
    emit_result_t(
      <<make_named_ref(map[e].symbol,
                       IF is_composite_type(map[e].type) THEN 8
                       ELSE map[e].type.size_in_bytes)>>,
      map[e].type)

\* Lines 1395-1401.
integer_literal(map, e) ==
    emit_result_t(<<instruction_operand_t(map[e].value)>>, map[e].type)

\* Lines 1547-1552: the offset the lhs has come to.
lhs_offset(lhs_result) ==
    IF Len(lhs_result.operands) = 2 THEN lhs_result.operands[2].value
    ELSE 0

\* Lines 1554-1567: the start offset of the field named by the rhs.
field_offset(lhs_type, name) ==
    IF accessed_type(lhs_type).element_type = "composite_type"
       /\ find_by_name(accessed_type(lhs_type).fields, name) # 0
    THEN accessed_type(lhs_type).fields[
             find_by_name(accessed_type(lhs_type).fields, name)].start_offset
    ELSE 0

\* Lines 1536-1571: emit_element, case member_access, given the result of
\* the lhs.
member_access(map, e, lhs_result) ==
    emit_result_t(
      <<lhs_result.operands[1],
        offset(lhs_offset(lhs_result)
               + field_offset(lhs_result.inferred_type,
                              map[map[e].operands[2]].symbol))>>,
      infer_type(map, e))

\* emit_element on an expression that emits no instruction.
RECURSIVE emit_element_result(_, _)
emit_element_result(map, e) ==
    IF map[e].kind = "member_access"
    THEN member_access(map, e, emit_element_result(map, map[e].operands[1]))
    ELSE IF map[e].kind = "integer_literal" THEN integer_literal(map, e)
    ELSE identifier(map, e)

(***************************************************************************)
(* A single assignment lhs := rhs, the lhs a variable or a member access.  *)
(***************************************************************************)

\* Lines 1614-1617: the local the address of the field is moved into.
temp_target == make_named_ref("", 8)

\* Lines 1610-1633: both sides composite, a byte-wise copy of the rhs.
assignment_copy(a, e, lhs_result, rhs_result) ==
    IF Len(lhs_result.operands) = 2
    THEN instr(instr(a, a.bb,
                     InsOf("move", <<temp_target, lhs_result.operands[1],
                                     lhs_result.operands[2]>>, e)),
               a.bb,
               InsOf("copy",
                     <<temp_target,
                       rhs_result.operands[Len(rhs_result.operands)],
                       instruction_operand_t(
                           rhs_result.inferred_type.size_in_bytes)>>, e))
    ELSE instr(a, a.bb,
               InsOf("copy",
                     <<lhs_result.operands[Len(lhs_result.operands)],
                       rhs_result.operands[Len(rhs_result.operands)],
                       instruction_operand_t(
                           rhs_result.inferred_type.size_in_bytes)>>, e))

\* Lines 1634-1646: a store, through the offset when the lhs has one.
assignment_store(a, e, lhs_result, rhs_result) ==
    IF Len(lhs_result.operands) = 2
    THEN instr(a, a.bb,
               InsOf("store",
                     <<lhs_result.operands[1],
                       rhs_result.operands[Len(rhs_result.operands)],
                       lhs_result.operands[2]>>, e))
    ELSE instr(a, a.bb,
               InsOf("store",
                     <<lhs_result.operands[Len(lhs_result.operands)],
                       rhs_result.operands[Len(rhs_result.operands)]>>, e))

\* Lines 1572-1648: emit_element, case assignment, given the results of
\* the rhs and the lhs.
assignment(a, e, lhs_result, rhs_result) ==
    IF /\ ~is_pointer_type(lhs_result.inferred_type)
       /\ is_composite_type(lhs_result.inferred_type)
       /\ ~is_composite_type(rhs_result.inferred_type)
    THEN fail(a, "X000")
    ELSE IF /\ ~is_pointer_type(lhs_result.inferred_type)
            /\ ~is_composite_type(lhs_result.inferred_type)
            /\ is_composite_type(rhs_result.inferred_type)
    THEN fail(a, "X000")
    ELSE IF /\ ~is_pointer_type(lhs_result.inferred_type)
            /\ is_composite_type(lhs_result.inferred_type)
            /\ is_composite_type(rhs_result.inferred_type)
    THEN assignment_copy(a, e, lhs_result, rhs_result)
    ELSE assignment_store(a, e, lhs_result, rhs_result)

\* The types of the variables, the names of the fields.
VarTypes == {numeric("s32"), point, rect, pointer_type(point)}
FieldNames == {"x", "y", "a", "b"}

\* names[i..] name a field each, from type t on.
RECURSIVE resolves(_, _, _)
resolves(t, names, i) ==
    IF i > Len(names) THEN TRUE
    ELSE /\ find_by_name(accessed_type(t).fields, names[i]) # 0
         /\ resolves(accessed_type(t).fields[
                       find_by_name(accessed_type(t).fields, names[i])].type,
                     names, i + 1)

identifier_reference(symbol, type, role) ==
    [Node("identifier_reference", 1, role, FALSE) EXCEPT
        !.symbol = symbol, !.type = type]

make_integer_literal(value, type) ==
    [Node("integer_literal", 1, "rhs", FALSE) EXCEPT
        !.value = value, !.type = type]

\* The type of the field of t that name names.
field_type(t, name) ==
    accessed_type(t).fields[find_by_name(accessed_type(t).fields, name)].type

\* The member accesses names[i..] on the last element of map, of type t.
RECURSIVE access_chain(_, _, _, _)
access_chain(map, t, names, i) ==
    IF i > Len(names) THEN map
    ELSE access_chain(
           map \o <<identifier_reference(names[i], field_type(t, names[i]),
                                         "field"),
                    [Node("member_access", 1, "lhs", FALSE) EXCEPT
                        !.operands = <<Len(map), Len(map) + 1>>]>>,
           field_type(t, names[i]), names, i + 1)

\* The elements of p.n1.n2 := rhs: the assignment, the rhs, p, the chain.
assignment_elements(root_type, names, rhs) ==
    LET map == access_chain(<<Node("assignment", 0, "stmt", FALSE), rhs,
                              identifier_reference("p", root_type, "lhs")>>,
                            root_type, names, 1)
    IN  [map EXCEPT ![1].operands = <<Len(map), 2>>]

\* The right-hand sides: the literal 42, or a variable q.
RightHandSides ==
    {make_integer_literal(42, numeric("u8"))}
    \cup {identifier_reference("q", t, "rhs") : t \in VarTypes}

\* The assignment comes into view.
assign_begin ==
    /\ status = "init"
    /\ \E t \in VarTypes, names \in SeqsUpTo(FieldNames, MaxChain),
          rhs \in RightHandSides :
        /\ resolves(t, names, 1)
        /\ elems' = assignment_elements(t, names, rhs)
    /\ blocks' = <<make>>
    /\ bb' = 1
    /\ frames' = <<Frame("assignment", 1, "enter", 0, 0, 0, 0, NoLabel,
                         <<>>, 0)>>
    /\ status' = "emitting"
    /\ UNCHANGED <<control_flow_stack, fuel, errors, cfg_edges>>

\* emit_element on the assignment: the rhs, the lhs, the store or copy.
assign_emit ==
    /\ Running /\ Top.op = "assignment"
    /\ call_emit_done(
         assignment(asm, Top.id,
                    emit_element_result(elems, elems[Top.id].operands[1]),
                    emit_element_result(elems, elems[Top.id].operands[2])))
    /\ frames' = <<>>
    /\ UNCHANGED <<control_flow_stack, elems, fuel>>

NextAssign == assign_begin \/ assign_emit

SpecAssign == Init /\ [][NextAssign]_vars

(***************************************************************************)
(* A single cast cast<target>(q).                                          *)
(***************************************************************************)

\* The same with every widening of an integer taken as a zero-extend.
cast_mode_zero_extend(source, target) ==
    IF source.number_class = "integer" /\ target.number_class = "integer"
    THEN IF source.size_in_bytes >= target.size_in_bytes
         THEN "integer_truncate" ELSE "integer_zero_extend"
    ELSE IF /\ source.number_class = "floating_point"
            /\ target.number_class = "floating_point"
    THEN IF source.size_in_bytes >= target.size_in_bytes
         THEN "float_truncate" ELSE "float_extend"
    ELSE IF source.number_class = "integer" THEN "integer_to_float"
    ELSE "float_to_integer"

\* Lines 241-270: the cast mode, both types having a number class. The
\* signedness is read through a dynamic_cast to numeric_type, null for any
\* other type.
cast_mode(source, target) ==
    IF source.number_class = "integer" /\ target.number_class = "integer"
    THEN IF source.size_in_bytes = target.size_in_bytes
         THEN "integer_truncate"
         ELSE IF source.size_in_bytes > target.size_in_bytes
         THEN "integer_truncate"
         ELSE IF source.element_type # "numeric_type"
         THEN "null_dereference"
         ELSE IF source.is_signed THEN "integer_sign_extend"
         ELSE "integer_zero_extend"
    ELSE IF /\ source.number_class = "floating_point"
            /\ target.number_class = "floating_point"
    THEN IF source.size_in_bytes = target.size_in_bytes
         THEN "float_truncate"
         ELSE IF source.size_in_bytes > target.size_in_bytes
         THEN "float_truncate"
         ELSE "float_extend"
    ELSE IF source.number_class = "integer" THEN "integer_to_float"
    ELSE "float_to_integer"

\* Lines 285-314: the instruction of a mode.
cast_instruction(mode) ==
    CASE mode = "integer_truncate" -> "move"
      [] mode = "integer_sign_extend" -> "moves"
      [] mode = "integer_zero_extend" -> "movez"
      [] OTHER -> "convert"

\* Lines 175-317: emit_element, case cast, given the result of the
\* expression; the target operand is a local named "".
cast(a, e, expr_result, target) ==
    IF expr_result.inferred_type.number_class = "none" THEN fail(a, "C073")
    ELSE IF target.number_class = "none" THEN fail(a, "C073")
    ELSE instr(a, a.bb,
               InsOf(cast_instruction(
                         cast_mode(expr_result.inferred_type, target)),
                     <<make_named_ref("", target.size_in_bytes),
                       expr_result.operands[Len(expr_result.operands)]>>,
                     e))

\* The types a cast goes between: the numeric types, a pointer, a struct.
CastTypes == s_type_properties \cup {pointer_type(point), point}

\* The cast and its expression, a variable q, come into view.
cast_begin ==
    /\ status = "init"
    /\ \E source \in CastTypes, target \in CastTypes :
        elems' = <<[Node("cast", 0, "stmt", FALSE) EXCEPT
                       !.type = target, !.operands = <<2>>],
                   identifier_reference("q", source, "expression")>>
    /\ blocks' = <<make>>
    /\ bb' = 1
    /\ frames' = <<Frame("cast", 1, "enter", 0, 0, 0, 0, NoLabel, <<>>, 0)>>
    /\ status' = "emitting"
    /\ UNCHANGED <<control_flow_stack, fuel, errors, cfg_edges>>

\* emit_element on the cast; reading the signedness through a null
\* pointer ends the run.
cast_emit_done(a, mode) ==
    /\ Commit(a)
    /\ errors' = errors \o a.errs
    /\ status' = IF ~a.ok THEN "failed"
                 ELSE IF mode = "null_dereference" THEN "crashed"
                 ELSE "ok"

cast_emit ==
    /\ Running /\ Top.op = "cast"
    /\ cast_emit_done(
         cast(asm, Top.id,
              emit_element_result(elems, elems[Top.id].operands[1]),
              elems[Top.id].type),
         cast_mode(elems[elems[Top.id].operands[1]].type,
                   elems[Top.id].type))
    /\ frames' = <<>>
    /\ UNCHANGED <<control_flow_stack, elems, fuel>>

NextCast == cast_begin \/ cast_emit

SpecCast == Init /\ [][NextCast]_vars

(***************************************************************************)
(* A single transmute transmute<target>(q).                                *)
(***************************************************************************)

\* Lines 1203-1252: emit_element, case transmute, given the result of the
\* expression; the sizes of the two types are not compared.
transmute(a, e, expr_result, target) ==
    IF expr_result.inferred_type.number_class = "none" THEN fail(a, "C073")
    ELSE IF target.number_class = "none" THEN fail(a, "C073")
    ELSE instr(a, a.bb,
               InsOf("move",
                     <<make_named_ref("", target.size_in_bytes),
                       expr_result.operands[Len(expr_result.operands)]>>,
                     e))

\* The transmute and its expression, a variable q, come into view.
transmute_begin ==
    /\ status = "init"
    /\ \E source \in CastTypes, target \in CastTypes :
        elems' = <<[Node("transmute", 0, "stmt", FALSE) EXCEPT
                       !.type = target, !.operands = <<2>>],
                   identifier_reference("q", source, "expression")>>
    /\ blocks' = <<make>>
    /\ bb' = 1
    /\ frames' = <<Frame("transmute", 1, "enter", 0, 0, 0, 0, NoLabel,
                         <<>>, 0)>>
    /\ status' = "emitting"
    /\ UNCHANGED <<control_flow_stack, fuel, errors, cfg_edges>>

\* emit_element on the transmute.
transmute_emit ==
    /\ Running /\ Top.op = "transmute"
    /\ call_emit_done(
         transmute(asm, Top.id,
                   emit_element_result(elems, elems[Top.id].operands[1]),
                   elems[Top.id].type))
    /\ frames' = <<>>
    /\ UNCHANGED <<control_flow_stack, elems, fuel>>

NextTransmute == transmute_begin \/ transmute_emit

SpecTransmute == Init /\ [][NextTransmute]_vars

(***************************************************************************)
(* The implicit type check of a pointer type against another type.         *)
(***************************************************************************)

\* type_reference::is_void: the base type is the built-in of size 0.
is_void(t) == t.name = "u0"

\* numeric_type::on_type_check: two integers when the range of other lies
\* in the range of the type, two floats when other is no wider.
numeric_type_check(t, other) ==
    /\ other.element_type = "numeric_type"
    /\ t.number_class = other.number_class
    /\ IF t.number_class = "floating_point"
       THEN other.size_in_bytes <= t.size_in_bytes
       ELSE IF t.is_signed = other.is_signed
       THEN other.size_in_bytes <= t.size_in_bytes
       ELSE t.is_signed /\ other.size_in_bytes < t.size_in_bytes

\* type::type_check: on_type_check of the type's class. Lines 45-68 of
\* pointer_type: another pointer is accepted when its base is void or the
\* bases check, a numeric type when it is 8 bytes wide.
RECURSIVE type_check(_, _)
type_check(t, other) ==
    IF t.element_type = "pointer_type"
    THEN IF other.element_type = "pointer_type"
         THEN is_void(other.base[1]) \/ type_check(t.base[1], other.base[1])
         ELSE IF other.element_type = "numeric_type"
         THEN other.size_in_bytes = 8
         ELSE FALSE
    ELSE IF t.element_type = "composite_type"
    THEN other.name = t.name
    ELSE IF t.element_type = "numeric_type"
    THEN numeric_type_check(t, other)
    ELSE FALSE

\* The pointer types checked, and the types they are checked against.
PointerTypes ==
    {pointer_type(numeric("u0")), pointer_type(numeric("u8")),
     pointer_type(point), pointer_type(pointer_type(point))}
CheckedTypes == s_type_properties \cup {point, rect} \cup PointerTypes

\* A declaration of pointer type t with an initializer of type other.
type_check_begin ==
    /\ status = "init"
    /\ \E t \in PointerTypes, other \in CheckedTypes :
        elems' = <<identifier_reference("p", t, "lhs"),
                   identifier_reference("q", other, "rhs")>>
    /\ frames' = <<Frame("type_check", 1, "enter", 0, 0, 0, 0, NoLabel,
                         <<>>, 0)>>
    /\ status' = "emitting"
    /\ UNCHANGED <<blocks, bb, control_flow_stack, fuel, errors, cfg_edges>>

\* t->type_check(other).
type_check_end ==
    /\ Running /\ Top.op = "type_check"
    /\ status' = IF type_check(elems[1].type, elems[2].type)
                 THEN "accepted" ELSE "rejected"
    /\ frames' = <<>>
    /\ UNCHANGED <<blocks, bb, control_flow_stack, elems, fuel, errors,
                   cfg_edges>>

NextTypeCheck == type_check_begin \/ type_check_end

SpecTypeCheck == Init /\ [][NextTypeCheck]_vars

(***************************************************************************)
(* Constant folding: on_fold of a binary operator over integer literals    *)
(* and of a size_of intrinsic.                                             *)
(***************************************************************************)

MaxFoldValue == 4

\* fold_result_t: whether on_fold returned true, the element it made (none
\* or one), the codes of the errors it reported.
fold_result_t(ok, element, errs) ==
    [ok |-> ok, element |-> element, errs |-> errs]

\* builder.make_integer.
make_integer(parent_scope, value) ==
    [Node("integer_literal", parent_scope, "folded", FALSE) EXCEPT
        !.value = value]

\* binary_operator::on_fold: every case of the switch breaks, and the
\* result is left without an element.
binary_operator_on_fold(map, e) == fold_result_t(TRUE, <<>>, <<>>)

\* size_of_intrinsic::on_fold.
size_of_intrinsic_on_fold(map, e) ==
    IF Len(map[e].operands) = 0 \/ Len(map[e].operands) > 1
    THEN fold_result_t(FALSE, <<>>, <<"P091">>)
    ELSE fold_result_t(
           TRUE,
           <<make_integer(map[e].parent,
                          infer_type(map, map[e].operands[1])
                              .size_in_bytes)>>,
           <<>>)

\* element::fold.
on_fold(map, e) ==
    IF map[e].kind = "size_of" THEN size_of_intrinsic_on_fold(map, e)
    ELSE binary_operator_on_fold(map, e)

\* The expressions folded: a op b and a op1 (b op2 c) over literals, and
\* size_of with up to two arguments.
FoldOperators == {"add", "multiply"}
FoldValues == 2..MaxFoldValue

fold_operator(type, lhs, rhs) ==
    [Node(type, 0, "expression", FALSE) EXCEPT !.operands = <<lhs, rhs>>]

FoldedElements ==
    {<<fold_operator(op, 2, 3), make_integer(1, a), make_integer(1, b)>> :
        op \in FoldOperators, a \in FoldValues, b \in FoldValues}
    \cup {<<fold_operator(op1, 2, 3), make_integer(1, a),
            fold_operator(op2, 4, 5), make_integer(3, b),
            make_integer(3, c)>> :
            op1 \in FoldOperators, op2 \in FoldOperators,
            a \in {2}, b \in {3}, c \in FoldValues}
    \cup {<<[Node("size_of", 0, "expression", FALSE) EXCEPT
               !.operands = [k \in DOMAIN args |-> k + 1]]>>
          \o [k \in DOMAIN args |->
                identifier_reference("q", args[k], "argument")] :
            args \in SeqsUpTo(CheckedTypes, 2)}

\* The expression comes into view.
fold_begin ==
    /\ status = "init"
    /\ \E map \in FoldedElements : elems' = map
    /\ frames' = <<Frame("fold", 1, "enter", 0, 0, 0, 0, NoLabel, <<>>, 0)>>
    /\ status' = "emitting"
    /\ UNCHANGED <<blocks, bb, control_flow_stack, fuel, errors, cfg_edges>>

\* fold on the expression: the element made joins the element map.
fold_end_result(r) ==
    /\ elems' = elems \o r.element
    /\ errors' = errors \o r.errs
    /\ status' = IF r.ok THEN "ok" ELSE "failed"

fold_end ==
    /\ Running /\ Top.op = "fold"
    /\ fold_end_result(on_fold(elems, Top.id))
    /\ frames' = <<>>
    /\ UNCHANGED <<blocks, bb, control_flow_stack, fuel, cfg_edges>>

NextFold == fold_begin \/ fold_end

SpecFold == Init /\ [][NextFold]_vars

(***************************************************************************)
(* Variables and their registers.                                          *)
(***************************************************************************)

\* The variables of the plan, the registers of the machine the assembler
\* hands out, and the calls made on the variables.
MaxVariables == 2
MaxRegisters == 3
MaxSteps == 4

\* variable_register_t: not allocated, its register not yet numbered.
variable_register_t == [allocated |-> FALSE, reg |-> 0]

\* A variable of an identifier: no flag set, two registers.
variable(element) ==
    [kind |-> "variable", element |-> element, flags |-> {},
     address |-> variable_register_t, value |-> variable_register_t]

\* variable::flag(f) and variable::flag(f, value).
flag(v, f) == f \in v.flags
flag_set(v, f, value) ==
    [v EXCEPT !.flags = IF value THEN @ \cup {f} ELSE @ \ {f}]

\* The registers the variables of map hold.
reserved(map) ==
    {map[i].address.reg : i \in {j \in DOMAIN map : map[j].address.allocated}}
    \cup
    {map[i].value.reg : i \in {j \in DOMAIN map : map[j].value.allocated}}

\* assembler::allocate_reg: the first register that is free, false when
\* every register is held.
allocate_reg(map) ==
    LET free == (1..MaxRegisters) \ reserved(map)
    IN IF free = {}
       THEN [ok |-> FALSE, number |-> 0]
       ELSE [ok |-> TRUE,
             number |-> CHOOSE n \in free : \A m \in free : n <= m]

\* variable_register_t::reserve on the address or the value register of v.
reserve(map, v, which) ==
    LET r == allocate_reg(map)
    IN [map EXCEPT ![v][which] =
            [allocated |-> r.ok, reg |-> IF r.ok THEN r.number ELSE @.reg]]

\* variable_register_t::release, free_reg of the assembler with it.
release(map, v, which) ==
    IF ~map[v][which].allocated
    THEN map
    ELSE [map EXCEPT ![v][which].allocated = FALSE]

\* The state a call on a variable works on: the variables, the
\* instructions of the current block, and what the call returns.
VarState(map, instrs) == [map |-> map, instrs |-> instrs, result |-> TRUE]
returns(s, value) == [s EXCEPT !.result = value]
clear_flags(v, activated) ==
    flag_set(flag_set(flag_set(flag_set(flag_set(v,
        "read", FALSE), "copied", FALSE), "written", FALSE),
        "activated", activated), "addressed", FALSE)

\* variable::activate. Lines 232-261: false when activated already; the
\* flags, then reserve on both registers, then true.
activate(s, v) ==
    IF flag(s.map[v], "activated")
    THEN returns(s, FALSE)
    ELSE LET flagged == [s.map EXCEPT ![v] = clear_flags(@, TRUE)]
             with_address == reserve(flagged, v, "address")
             with_value == reserve(with_address, v, "value")
         IN returns([s EXCEPT !.map = with_value], TRUE)

\* variable::deactivate. Lines 270-284.
deactivate(s, v) ==
    IF ~flag(s.map[v], "activated")
    THEN returns(s, FALSE)
    ELSE LET flagged == [s.map EXCEPT ![v] = clear_flags(@, FALSE)]
             without_address == release(flagged, v, "address")
             without_value == release(without_address, v, "value")
         IN returns([s EXCEPT !.map = without_value], TRUE)

\* variable::address. Lines 199-230: the label of the identifier moved to
\* the address register, once.
address(s, v) ==
    IF flag(s.map[v], "addressed")
    THEN returns(s, FALSE)
    ELSE returns(
            [s EXCEPT
                !.instrs = Append(@, Ins("move_label_to_reg",
                    <<s.map[v].element, "">>, s.map[v].address.reg, v)),
                !.map[v] = flag_set(@, "addressed", TRUE)],
            TRUE)

\* variable::read. Lines 57-104: false when read already; else the
\* address, the load, read set and written cleared.
read(s, v) ==
    IF flag(s.map[v], "read")
    THEN returns(s, FALSE)
    ELSE LET a == address(s, v)
         IN returns(
                [a EXCEPT
                    !.instrs = Append(@, Ins("load_to_reg", NoLabel,
                        a.map[v].value.reg, v)),
                    !.map[v] = flag_set(flag_set(@, "read", TRUE),
                                        "written", FALSE)],
                TRUE)

\* variable::write(). Lines 162-197: false when written already; else the
\* address, the store, written set and read cleared.
write(s, v) ==
    IF flag(s.map[v], "written")
    THEN returns(s, FALSE)
    ELSE LET a == address(s, v)
         IN returns(
                [a EXCEPT
                    !.instrs = Append(@, Ins("store_from_reg", NoLabel,
                        a.map[v].value.reg, v)),
                    !.map[v] = flag_set(flag_set(@, "written", TRUE),
                                        "read", FALSE)],
                TRUE)

\* variable::write(uint64_t). Lines 298-327: false when written already;
\* else the address, the constant, the store, and written set.
write_constant(s, v, value) ==
    IF flag(s.map[v], "written")
    THEN returns(s, FALSE)
    ELSE LET a == address(s, v)
         IN returns(
                [a EXCEPT
                    !.instrs = @ \o
                        <<Ins("move_constant_to_reg", NoLabel, value, v),
                          Ins("store_from_reg", NoLabel,
                              a.map[v].value.reg, v)>>,
                    !.map[v] = flag_set(@, "written", TRUE)],
                TRUE)

\* variable::write(variable*). Lines 329-355: the address, read on the
\* other variable, the store of its value register.
write_variable(s, v, other) ==
    LET a == address(s, v)
        r == read(a, other)
    IN returns(
            [r EXCEPT
                !.instrs = Append(@, Ins("store_from_reg", NoLabel,
                    r.map[other].value.reg, v))],
            TRUE)

\* The variables of the plan are made; a block is current.
variable_begin ==
    /\ status = "init"
    /\ elems' = [i \in 1..MaxVariables |-> variable(i)]
    /\ blocks' = <<make>>
    /\ bb' = 1
    /\ fuel' = MaxSteps
    /\ status' = "emitting"
    /\ UNCHANGED <<control_flow_stack, frames, errors, cfg_edges>>

\* A call on a variable: frames holds the call and what it returned.
variable_called(op, v, s) ==
    /\ elems' = s.map
    /\ blocks' = [blocks EXCEPT ![bb].instrs = s.instrs]
    /\ frames' = <<Frame(op, v, IF s.result THEN "true" ELSE "false",
                         0, 0, 0, 0, NoLabel, <<>>, 0)>>
    /\ fuel' = fuel - 1
    /\ UNCHANGED <<bb, control_flow_stack, errors, cfg_edges, status>>

CanCall == status = "emitting" /\ fuel > 0
var_state == VarState(elems, blocks[bb].instrs)

variable_activate ==
    /\ CanCall
    /\ \E v \in 1..MaxVariables :
        variable_called("activate", v, activate(var_state, v))

variable_deactivate ==
    /\ CanCall
    /\ \E v \in 1..MaxVariables :
        variable_called("deactivate", v, deactivate(var_state, v))

variable_read ==
    /\ CanCall
    /\ \E v \in 1..MaxVariables :
        variable_called("read", v, read(var_state, v))

variable_write ==
    /\ CanCall
    /\ \E v \in 1..MaxVariables :
        variable_called("write", v, write(var_state, v))

variable_write_constant ==
    /\ CanCall
    /\ \E v \in 1..MaxVariables :
        variable_called("write_constant", v,
                        write_constant(var_state, v, 1))

variable_write_variable ==
    /\ CanCall
    /\ \E v \in 1..MaxVariables, other \in 1..MaxVariables :
        /\ other # v
        /\ variable_called("write_variable", v,
                           write_variable(var_state, v, other))

NextVariable ==
    \/ variable_begin
    \/ variable_activate
    \/ variable_deactivate
    \/ variable_read
    \/ variable_write
    \/ variable_write_constant
    \/ variable_write_variable

SpecVariable == Init /\ [][NextVariable]_vars

(***************************************************************************)
(* The type info table of a set of used types.                             *)
(***************************************************************************)

MaxUsedTypes == 3

\* A generic type and the unknown type a used type set can hold.
generic_type(name) == Type("generic_type", name, 0, FALSE, "none", <<>>, <<>>)
unknown_type(name) == Type("unknown_type", name, 0, FALSE, "none", <<>>, <<>>)

\* type::make_info_label_name, make_literal_label_name and
\* make_literal_data_label_name.
make_info_label_name(type) == "ti_" \o type.name
make_literal_label_name(type) == "ti_lit_" \o type.name
make_literal_data_label_name(type) ==
    make_literal_label_name(type) \o "_data"

\* emit_type_info. Lines 1704-1723: the label of the record, the length
\* of the name twice, the reference to the name's data.
emit_type_info(a, block, type) ==
    instr(instr(instr(label(a, block, <<0, make_info_label_name(type)>>),
                      block, Ins("dwords", NoLabel, 0, 0)),
                block, Ins("dwords", NoLabel, 0, 0)),
          block, Ins("qwords",
                     <<0, make_literal_data_label_name(type)>>, 0, 0))

\* Lines 1736-1743: the name of each of the first n used types.
RECURSIVE type_literals(_, _, _, _)
type_literals(a, block, used_types, n) ==
    IF n = 0 THEN a
    ELSE instr(instr(type_literals(a, block, used_types, n - 1),
                     block, Ins("align", NoLabel, 4, 0)),
               block,
               Ins("string",
                   <<0, make_literal_label_name(used_types[n])>>, 0, 0))

\* Lines 1748-1759: the record of each of the first n used types, but for
\* a generic and an unknown type.
RECURSIVE type_infos(_, _, _, _)
type_infos(a, block, used_types, n) ==
    IF n = 0 THEN a
    ELSE LET prior == type_infos(a, block, used_types, n - 1)
         IN IF used_types[n].element_type \in
                    {"generic_type", "unknown_type"}
            THEN prior
            ELSE emit_type_info(prior, block, used_types[n])

\* emit_type_table. Lines 1725-1762, for the used types of the session:
\* emit_type_table above is the table of a session without a used type.
emit_type_table_of(a, used_types) ==
    LET type_info_block == Len(a.blocks) + 1
        literals ==
            type_literals(
                instr(emplace_back(a), type_info_block,
                      Ins("section", <<0, "ro_data">>, 0, 0)),
                type_info_block, used_types, Len(used_types))
        counted ==
            instr(label(instr(literals, type_info_block,
                              Ins("align", NoLabel, 8, 0)),
                        type_info_block, <<0, "_ti_array">>),
                  type_info_block,
                  Ins("qwords", NoLabel, Len(used_types), 0))
    IN type_infos(counted, type_info_block, used_types, Len(used_types))

\* The types a session can have used, and the orders a set of them is
\* iterated in.
UsableTypes ==
    {numeric("u8"), numeric("s32"), point, pointer_type(point),
     generic_type("T"), unknown_type("unknown")}
UsedTypeLists ==
    {ts \in SeqsUpTo(UsableTypes, MaxUsedTypes) :
        \A i, j \in 1..Len(ts) : i # j => ts[i] # ts[j]}

\* The session has used some types.
type_table_begin ==
    /\ status = "init"
    /\ \E ts \in UsedTypeLists :
        elems' = [i \in 1..Len(ts) |->
                    [Node("type", 0, "used", FALSE) EXCEPT !.type = ts[i]]]
    /\ frames' = <<Frame("type_table", 1, "enter", 0, 0, 0, 0, NoLabel,
                         <<>>, 0)>>
    /\ status' = "emitting"
    /\ UNCHANGED <<blocks, bb, control_flow_stack, fuel, errors, cfg_edges>>

\* emit_type_table.
type_table_emit ==
    /\ Running /\ Top.op = "type_table"
    /\ call_emit_done(emit_type_table_of(asm,
            [i \in 1..Len(elems) |-> elems[i].type]))
    /\ frames' = <<>>
    /\ UNCHANGED <<control_flow_stack, elems, fuel>>

NextTypeTable == type_table_begin \/ type_table_emit

SpecTypeTable == Init /\ [][NextTypeTable]_vars

(***************************************************************************)
(* common::result: the messages of a compilation and its failed state.     *)
(***************************************************************************)

\* The codes of the messages.
Codes == {"P091", "X000"}

\* A result as constructed, and a message.
common_result ==
    [kind |-> "result", messages |-> <<>>, success |-> TRUE]
result_message(code, type) == [code |-> code, type |-> type]

\* result::fail, succeed and is_failed.
result_fail(r) == [r EXCEPT !.success = FALSE]
succeed(r) == [r EXCEPT !.success = TRUE]
is_failed(r) == ~r.success

\* result::add_message. Lines 181-212: the message is appended, an error
\* makes the result failed.
add_message(r, code, error) ==
    LET added == [r EXCEPT !.messages =
                    Append(@, result_message(code,
                                  IF error THEN "error" ELSE "info"))]
    IN IF error THEN result_fail(added) ELSE added

\* result::has_code.
has_code(r, code) ==
    \E i \in 1..Len(r.messages) : r.messages[i].code = code

\* _messages.erase(it): the list without its element at it; the iterator
\* returned stands at the same place.
erase(messages, it) ==
    SubSeq(messages, 1, it - 1) \o SubSeq(messages, it + 1, Len(messages))

\* The loop of result::remove_code from iterator it. Lines 219-222: ++it
\* also follows an erase; an iterator that has gone past end() compares
\* unequal to end() and is dereferenced.
RECURSIVE remove_code_from(_, _, _)
remove_code_from(messages, it, code) ==
    IF it = Len(messages) + 1
    THEN [messages |-> messages, past_end |-> FALSE]
    ELSE IF it > Len(messages) + 1
    THEN [messages |-> messages, past_end |-> TRUE]
    ELSE IF messages[it].code = code
    THEN remove_code_from(erase(messages, it), it + 1, code)
    ELSE remove_code_from(messages, it + 1, code)

remove_code(r, code) == remove_code_from(r.messages, 1, code)

\* A result is constructed.
result_begin ==
    /\ status = "init"
    /\ elems' = <<common_result>>
    /\ fuel' = MaxSteps
    /\ status' = "emitting"
    /\ UNCHANGED <<blocks, bb, control_flow_stack, frames, errors,
                   cfg_edges>>

\* A call on the result: frames holds the call and the code it was given.
result_called(op, code, r) ==
    /\ elems' = <<r>>
    /\ frames' = <<Frame(op, 1, "returned", 0, 0, 0, 0, <<0, code>>,
                         <<>>, 0)>>
    /\ fuel' = fuel - 1
    /\ UNCHANGED <<blocks, bb, control_flow_stack, errors, cfg_edges>>

result_add_message ==
    /\ CanCall
    /\ \E code \in Codes, error \in BOOLEAN :
        result_called("add_message", code,
                      add_message(elems[1], code, error))
    /\ UNCHANGED status

result_succeed ==
    /\ CanCall
    /\ result_called("succeed", "", succeed(elems[1]))
    /\ UNCHANGED status

\* remove_code: when the iterator has gone past end() the read is of
\* memory behind the list: the compiler is ended, or the loop comes to a
\* stop on what it reads there.
result_remove_code ==
    /\ CanCall
    /\ \E code \in Codes :
        LET r == remove_code(elems[1], code)
        IN /\ result_called("remove_code", code,
                            [elems[1] EXCEPT !.messages = r.messages])
           /\ IF r.past_end
              THEN status' \in {"crashed", status}
              ELSE UNCHANGED status

NextResult ==
    \/ result_begin
    \/ result_add_message
    \/ result_succeed
    \/ result_remove_code

SpecResult == Init /\ [][NextResult]_vars

(***************************************************************************)
(* Properties.                                                             *)
(*                                                                         *)
(* The linear order of the emitted code is the order of the block list     *)
(* and, inside a block, of its instructions.                               *)
(***************************************************************************)

\* The places of the emitted instructions: block index, instruction index.
Places ==
    UNION {{<<b, i>> : i \in 1..Len(blocks[b].instrs)} :
           b \in 1..Len(blocks)}

At(p) == blocks[p[1]].instrs[p[2]]

Before(p, q) == p[1] < q[1] \/ (p[1] = q[1] /\ p[2] < q[2])

\* Element e lies inside element w.
RECURSIVE Inside(_, _)
Inside(e, w) ==
    /\ e # 0
    /\ elems[e].parent # 0
    /\ (elems[e].parent = w \/ Inside(elems[e].parent, w))

Ids == 1..Len(elems)
OfKind(k) == {e \in Ids : elems[e].kind = k}

\* The places of the code emitted for element w and the elements inside.
CodeOf(w) == {p \in Places : At(p).by = w \/ Inside(At(p).by, w)}

\* The block element with the given role under element w.
Child(w, role) ==
    CHOOSE b \in Ids : elems[b].parent = w /\ elems[b].role = role

HasChild(w, role) ==
    \E b \in Ids : elems[b].parent = w /\ elems[b].role = role

\* The innermost while, for or switch that encloses element e, 0 if none.
RECURSIVE Enclosing(_)
Enclosing(e) ==
    IF e = 0 \/ elems[e].parent = 0 THEN 0
    ELSE IF elems[elems[e].parent].kind \in {"while", "for", "switch"}
    THEN elems[e].parent
    ELSE Enclosing(elems[e].parent)

\* The statements of block b, in source order.
StmtsOf(b) == {e \in Ids : elems[e].parent = b /\ elems[e].role = "stmt"}

\* The places of the jumps the lowering of element w itself appended.
JumpsOf(w) == {p \in Places : At(p).by = w /\ At(p).op = "jmp"}

\* The blocks that carry label l.
Labelled(l) ==
    {b \in 1..Len(blocks) :
        \E i \in 1..Len(blocks[b].labels) : blocks[b].labels[i] = l}

\* C1: for every while loop the jump back to <id>_entry comes, in the
\* linear block order, after every instruction emitted for the loop body.
WhileBackEdgeAfterBody ==
    \A w \in OfKind("while") :
        \A j \in JumpsOf(w) :
            HasChild(w, "body") =>
                \A p \in CodeOf(Child(w, "body")) : Before(p, j)

\* A while loop whose body holds an if has been lowered completely.
WhileWithIfLowered ==
    \E w \in OfKind("while") :
        /\ JumpsOf(w) # {}
        /\ \E s \in OfKind("if") : Inside(s, w)

\* C2: every jump emitted for an unlabelled break inside a while, for or
\* switch targets the exit label of the innermost such construct that
\* encloses the break, and every jump emitted for an unlabelled continue
\* targets the continue label of that construct.
BreakTargetsInnermost ==
    /\ \A s \in OfKind("break") :
          Enclosing(s) # 0 =>
              \A j \in JumpsOf(s) : At(j).label = <<Enclosing(s), "exit">>
    /\ \A s \in OfKind("continue") :
          Enclosing(s) # 0 =>
              \A j \in JumpsOf(s) : At(j).label = <<Enclosing(s), "entry">>

\* A break has been lowered after a loop nested in the same body.
BreakAfterNestedLoop ==
    \E s \in OfKind("break") :
        /\ JumpsOf(s) # {}
        /\ Enclosing(s) # 0
        /\ \E w \in OfKind("while") \cup OfKind("for") :
              w < s /\ elems[w].parent = elems[s].parent

\* The while, for and switch lowerings that are active.
ActiveConstructs ==
    {i \in 1..Len(frames) : frames[i].op \in {"while", "for", "switch"}}

\* C3: the depth of the flow-control stack equals the number of while,
\* for and switch lowerings that are active: each leaves the stack as it
\* found it, whether it succeeds or a sub-element fails.
FlowControlStackBalanced ==
    Len(control_flow_stack) = Cardinality(ActiveConstructs)

\* A loop or switch has been lowered completely.
ConstructLowered ==
    \E w \in OfKind("while") \cup OfKind("for") \cup OfKind("switch") :
        Labelled(<<w, "exit">>) # {}

\* C4: after a successful emit, every block is among the predecessors of
\* each of its successors.
SuccessorsHavePredecessors ==
    status = "ok" =>
        \A b \in 1..Len(blocks) :
            \A succ \in blocks[b].successors :
                b \in blocks[succ].predecessors

\* A program with a while loop has been emitted.
WhileEmitted == status = "ok" /\ OfKind("while") # {}

\* The change of the stack pointer over instrs[1..i].
RECURSIVE sp_change(_, _)
sp_change(instrs, i) ==
    IF i = 0 THEN 0
    ELSE sp_change(instrs, i - 1)
         + (CASE instrs[i].op = "push" -> -8
              [] instrs[i].op = "pop" -> 8
              [] instrs[i].op = "sub_sp" -> -instrs[i].n
              [] instrs[i].op = "add_sp" -> instrs[i].n
              [] OTHER -> 0)

\* The change of the stack pointer over blocks[1..b].
RECURSIVE sp_change_blocks(_)
sp_change_blocks(b) ==
    IF b = 0 THEN 0
    ELSE sp_change_blocks(b - 1)
         + sp_change(blocks[b].instrs, Len(blocks[b].instrs))

\* C5: over an emitted call of a non-foreign procedure, prologue to
\* epilogue, the stack pointer returns to its value before the call.
CallRestoresStackPointer ==
    (status = "ok" /\ ~elems[1].call.is_foreign) =>
        sp_change_blocks(Len(blocks)) = 0

\* A call of a native procedure that returns a value has been emitted.
ReturningCallEmitted ==
    status = "ok" /\ ~elems[1].call.is_foreign /\ elems[1].call.has_return

\* The places of the branch a logical operator makes on its left operand.
BranchesOf(e) ==
    {p \in Places : At(p).by = e /\ At(p).op \in {"bz", "bnz"}
                    /\ At(p).label = <<e, "exit">>}

\* C6: no instruction of the right operand of a logical and/or is placed
\* before the conditional branch on the left operand's value.
RightOperandAfterBranch ==
    \A e \in OfKind("logical_and") \cup OfKind("logical_or") :
        \A j \in BranchesOf(e) :
            \A p \in Places :
                (At(p).by # 0 /\ At(p).by \in Ids
                 /\ elems[At(p).by].parent = e
                 /\ elems[At(p).by].role = "rhs") => Before(j, p)

\* A logical operator whose right operand is a call has been lowered.
CallOnTheRight ==
    \E e \in OfKind("logical_and") \cup OfKind("logical_or") :
        /\ BranchesOf(e) # {}
        /\ \E r \in OfKind("proc_call") :
              elems[r].parent = e /\ elems[r].role = "rhs"

\* The defer statements of block b.
DefersOf(b) == {e \in StmtsOf(b) : elems[e].kind = "defer"}

\* The places of the code of the expression deferred by statement d.
DeferredCode(d) == {p \in Places : At(p).by = d}

\* C7: in an emitted program, each deferred expression of a block is
\* emitted exactly once, after the code of all statements of the block
\* that are not defers, and a later defer before an earlier one; the
\* block's defer stack still holds the defers in source order.
DefersEmittedInReverse ==
    status = "ok" =>
        \A b \in OfKind("block") :
            /\ \A d \in DefersOf(b) :
                  /\ Cardinality(DeferredCode(d)) = 1
                  /\ \A t \in StmtsOf(b) \ DefersOf(b) :
                        \A p \in CodeOf(t) : \A q \in DeferredCode(d) :
                            Before(p, q)
                  /\ \A d2 \in DefersOf(b) :
                        d < d2 =>
                            \A p \in DeferredCode(d2) :
                                \A q \in DeferredCode(d) : Before(p, q)
            /\ Len(elems[b].defer_stack) = Cardinality(DefersOf(b))
            /\ \A i \in 1..Len(elems[b].defer_stack) :
                  /\ elems[b].defer_stack[i] \in DefersOf(b)
                  /\ i > 1 => elems[b].defer_stack[i - 1]
                                < elems[b].defer_stack[i]

\* A block with two defers and a statement between them has been emitted.
TwoDefersEmitted ==
    /\ status = "ok"
    /\ \E b \in OfKind("block") : \E d1, d2 \in DefersOf(b) :
          \E t \in StmtsOf(b) \ DefersOf(b) :
              d1 < t /\ t < d2 /\ CodeOf(t) # {}

\* The places of the instruction by which statement t leaves its block.
LeavesOf(t) == {p \in Places : At(p).by = t /\ At(p).op \in {"rts", "jmp"}}

\* C8: when a block holds a return, break or continue, the code of each
\* deferred expression of the block is placed before the rts or jump
\* that leaves the block.
DefersBeforeLeaving ==
    status = "ok" =>
        \A b \in OfKind("block") : \A t \in StmtsOf(b) :
            elems[t].kind \in {"return", "break", "continue"} =>
                \A j \in LeavesOf(t) : \A d \in DefersOf(b) :
                    \E q \in DeferredCode(d) : Before(q, j)

\* A block with a defer and a return has been emitted.
DeferWithReturnEmitted ==
    /\ status = "ok"
    /\ \E b \in OfKind("block") : \E t \in StmtsOf(b) :
          elems[t].kind = "return" /\ DefersOf(b) # {}

\* The if elements the lowering of which has reached its exit block.
LoweredIfs == {f \in OfKind("if") : Labelled(<<f, "exit">>) # {}}

\* The block that carries label l, when one block does.
BlockOf(l) == CHOOSE b \in Labelled(l) : TRUE

LastInstr(b) == blocks[b].instrs[Len(blocks[b].instrs)]

\* The block in which the true branch of a lowered if ended: the
\* predecessor of the exit block that lies before the false block.
TrueEnd(f) ==
    CHOOSE b \in blocks[BlockOf(<<f, "exit">>)].predecessors :
        b < BlockOf(<<f, "false">>)

\* C9: a lowered if has one block for each of the labels entry, true,
\* false, exit, in this order in the block list; the one predecessor of
\* the true block ends in bz to the false label; the block the true
\* branch ended in ends in jmp or rts, and in the if's own jump to the
\* exit label only when nothing before it was a jmp or rts; without an
\* else the false block holds one nop; emission goes on in the exit
\* block; and a successful emit leaves no if unlowered.
IfLowering ==
    /\ \A f \in LoweredIfs :
        LET entry_block == BlockOf(<<f, "entry">>)
            true_block == BlockOf(<<f, "true">>)
            false_block == BlockOf(<<f, "false">>)
            exit_block == BlockOf(<<f, "exit">>)
            true_end == CHOOSE b \in blocks[exit_block].predecessors :
                            b < false_block
        IN
        /\ \A l \in {"entry", "true", "false", "exit"} :
              Cardinality(Labelled(<<f, l>>)) = 1
        /\ entry_block < true_block
        /\ true_block < false_block
        /\ false_block < exit_block
        /\ \E pb \in 1..Len(blocks) :
              /\ blocks[true_block].predecessors = {pb}
              /\ Len(blocks[pb].instrs) > 0
              /\ LastInstr(pb) = Ins("bz", <<f, "false">>, 0, f)
        /\ \E tb \in blocks[exit_block].predecessors : tb < false_block
        /\ Len(blocks[true_end].instrs) > 0
        /\ LastInstr(true_end).op \in {"jmp", "rts"}
        /\ (LastInstr(true_end) = Ins("jmp", <<f, "exit">>, 0, f)
            /\ Len(blocks[true_end].instrs) > 1)
           => blocks[true_end].instrs[Len(blocks[true_end].instrs) - 1].op
                \notin {"jmp", "rts"}
        /\ ~elems[f].flag =>
              blocks[false_block].instrs = <<Ins("nop", NoLabel, 0, f)>>
        /\ exit_block = Len(blocks) => bb = exit_block
    /\ status = "ok" => LoweredIfs = OfKind("if")

\* An if without else has been lowered whose true branch ended in a jmp
\* or rts of its own, and emission stands in its exit block.
IfWithLeavingBranchLowered ==
    \E f \in LoweredIfs :
        /\ ~elems[f].flag
        /\ LastInstr(TrueEnd(f)).by # f
        /\ bb = BlockOf(<<f, "exit">>)

\* The case elements the lowering of which has reached its exit block.
LoweredCases == {c \in OfKind("case") : Labelled(<<c, "false">>) # {}}

\* The last statement of the body of case c is a fallthrough.
EndsWithFallthrough(c) ==
    /\ HasChild(c, "body")
    /\ \E t \in StmtsOf(Child(c, "body")) :
          /\ elems[t].kind = "fallthrough"
          /\ \A u \in StmtsOf(Child(c, "body")) : u <= t

HasNextCase(c) == \E n \in StmtsOf(elems[c].parent) : n > c

\* The case that follows case c in the switch.
NextCase(c) ==
    CHOOSE n \in StmtsOf(elems[c].parent) :
        n > c /\ \A m \in StmtsOf(elems[c].parent) : m > c => n <= m

\* C10: a lowered case that is not the default has one jump of its own,
\* placed after all the code of its body, to the exit label of the
\* switch, or to the true-label of the next case when its body ends with
\* fallthrough; a default case has no branch and no jump of its own.
CaseJump ==
    \A c \in LoweredCases :
        IF elems[c].flag
        THEN \A p \in Places : At(p).by = c => At(p).op \notin {"jmp", "bz"}
        ELSE /\ Cardinality(JumpsOf(c)) = 1
             /\ \A j \in JumpsOf(c) :
                   /\ \A p \in CodeOf(Child(c, "body")) : Before(p, j)
                   /\ IF EndsWithFallthrough(c)
                      THEN HasNextCase(c) =>
                              At(j).label = <<NextCase(c), "true">>
                      ELSE At(j).label = <<Enclosing(c), "exit">>

\* A case whose body holds a statement that makes blocks has been lowered.
CaseWithBlocksLowered ==
    \E c \in LoweredCases :
        /\ ~elems[c].flag
        /\ \E t \in StmtsOf(Child(c, "body")) :
              elems[t].kind \in {"if", "while", "for", "proc_call", "break"}

\* Element s lies inside a while or for loop.
InLoop(s) == \E w \in OfKind("while") \cup OfKind("for") : Inside(s, w)

\* C11: no jump is emitted for an unlabelled break that no loop or switch
\* encloses, nor for an unlabelled continue that no loop encloses,
\* whatever was emitted before it.
NoJumpOutsideConstruct ==
    /\ \A s \in OfKind("break") : Enclosing(s) = 0 => JumpsOf(s) = {}
    /\ \A s \in OfKind("continue") : ~InLoop(s) => JumpsOf(s) = {}

\* A break that nothing encloses has been reached after a loop of the same
\* block was lowered completely.
BreakOutsideAfterLoop ==
    \E s \in OfKind("break") :
        /\ Enclosing(s) = 0
        /\ \E w \in OfKind("while") \cup OfKind("for") :
              /\ w < s /\ elems[w].parent = elems[s].parent
              /\ Labelled(<<w, "exit">>) # {}
        /\ JumpsOf(s) # {} \/ status = "failed"

\* C12: whenever emit_element has returned false, the session's result
\* holds at least one message.
FailureHasMessage == status = "failed" => Len(errors) > 0

\* The lowering of a for loop has returned false at a dir argument that is
\* not an integer constant.
ForFailedAtDir ==
    /\ status = "failed"
    /\ OfKind("for") # {}
    /\ \A f \in OfKind("for") :
          ~as_integer(elems, param_by_name(elems, f, "dir"))

\* The operators the lowering of for loop f built: induction_init,
\* comparison_op, induction_step, induction_assign.
BuiltBy(f, n) == elems[Len(elems[f].operands) + 1 + n]

\* C18: for a lowered for loop over range with dir and kind in {0, 1}, the
\* comparison built is < for dir 0 kind 1, <= for dir 0 kind 0, > for dir 1
\* kind 1, >= for dir 1 kind 0, on the induction variable and stop; the
\* step built and emitted is an add for dir 0 and a subtract for dir 1, on
\* the induction variable and step; and the induction variable is assigned
\* start in a block before the block labelled entry.
RangeOperators ==
    \A f \in OfKind("for") :
        (/\ status = "ok"
         /\ dir_value(elems, f) \in {0, 1}
         /\ kind_value(elems, f) \in {0, 1}) =>
            /\ BuiltBy(f, 1).kind = "assignment"
            /\ BuiltBy(f, 1).operands
                 = <<induction_identifier(elems, f),
                     param_by_name(elems, f, "start")>>
            /\ BuiltBy(f, 2).kind
                 = (IF dir_value(elems, f) = 0
                    THEN IF kind_value(elems, f) = 1
                         THEN "less_than" ELSE "less_than_or_equal"
                    ELSE IF kind_value(elems, f) = 1
                         THEN "greater_than" ELSE "greater_than_or_equal")
            /\ BuiltBy(f, 2).operands
                 = <<induction_identifier(elems, f),
                     param_by_name(elems, f, "stop")>>
            /\ BuiltBy(f, 3).kind
                 = (IF dir_value(elems, f) = 0 THEN "add" ELSE "subtract")
            /\ BuiltBy(f, 3).operands
                 = <<induction_identifier(elems, f),
                     param_by_name(elems, f, "step")>>
            /\ \E p \in Places :
                  /\ At(p).by = f
                  /\ At(p).op
                       = (IF dir_value(elems, f) = 0 THEN "add" ELSE "sub")
            /\ \A p \in Places :
                  At(p).by = f =>
                      At(p).op
                        # (IF dir_value(elems, f) = 0 THEN "sub" ELSE "add")
            /\ \E p \in Places :
                  /\ At(p).by = f /\ At(p).op = "store"
                  /\ \A b \in Labelled(<<f, "entry">>) : p[1] < b

\* A for loop that counts down to an inclusive bound has been lowered.
DownwardInclusiveLowered ==
    \E f \in OfKind("for") :
        /\ status = "ok"
        /\ dir_value(elems, f) = 1 /\ kind_value(elems, f) = 0
        /\ Labelled(<<f, "entry">>) # {}

\* The ids the element map holds.
InMap == {e \in Ids : elems[e].role # "removed"}

\* C19: when the lowering of a for loop has returned, with true or with
\* false, the element map holds exactly the ids it held before: the loop,
\* its induction identifier, the arguments of range and the body.
ElementMapRestored ==
    \A f \in OfKind("for") :
        status \in {"ok", "failed"} =>
            InMap = {f} \cup {elems[f].operands[k] :
                                k \in 1..Len(elems[f].operands)}

\* The lowering has returned false at the body, after it built
\* comparison_op.
ForFailedAtBody ==
    /\ status = "failed"
    /\ \E e \in Ids :
          elems[e].role = "removed" /\ elems[e].kind # "assignment"

\* The calls of native procedures, and the procedures called from a set
\* of sites.
NativeCalls == {c \in OfKind("proc_call") : ~elems[c].call.is_foreign}
CalledFrom(S) ==
    {procedure_type(elems, c) :
        c \in {c \in NativeCalls : find_call_site(elems, c) \in S}}

RECURSIVE Closure(_)
Closure(S) ==
    IF CalledFrom(S) \subseteq S THEN S ELSE Closure(S \cup CalledFrom(S))

\* The procedures a chain of calls reaches from a call at module level.
ReachableProcedures == Closure(OfKind("module")) \ OfKind("module")

\* The blocks that open the body of procedure p.
BodiesOf(p) == Labelled(<<p, "proc">>)

\* C13: once emit_procedure_types is over, the body of a native procedure
\* has been emitted once if a chain of calls reaches the procedure from a
\* call at module level, and not at all otherwise.
ReachableProceduresEmitted ==
    (status \in {"ok", "crashed"} /\ OfKind("module") # {}) =>
        \A p \in OfKind("proc_type") :
            ~elems[p].call.is_foreign =>
                Cardinality(BodiesOf(p))
                  = (IF p \in ReachableProcedures THEN 1 ELSE 0)

\* A program has been emitted in which a procedure is reached only
\* through another procedure.
ChainOfCallsEmitted ==
    /\ status = "ok"
    /\ \E p \in ReachableProcedures : p \notin CalledFrom(OfKind("module"))

\* The block labelled _start.
StartBlock == CHOOSE b \in Labelled(StartLabel) : TRUE

\* C14: after a successful emit the block list holds, in this order, the
\* bootstrap block with the jump to _start alone, the type table, the
\* interned string table, the section table, the blocks of the procedure
\* instances, the _start block with move fp, sp, the implicit blocks of
\* the module, and last the _end block with the exit instruction.
BlockListOrder ==
    (status = "ok" /\ OfKind("module") # {}) =>
        /\ blocks[1].labels = <<>>
        /\ blocks[1].instrs = <<Ins("jmp", StartLabel, 0, 0)>>
        /\ blocks[2].labels = <<<<0, "_ti_array">>>>
        /\ blocks[3].instrs
             = <<Ins("section", <<0, "interned string literals">>, 0, 0)>>
        /\ blocks[4] = make
        /\ Cardinality(Labelled(StartLabel)) = 1
        /\ StartBlock > 4
        /\ blocks[StartBlock].instrs = <<Ins("move_fp_sp", NoLabel, 0, 0)>>
        /\ \A p \in OfKind("proc_type") : \A b \in BodiesOf(p) :
              4 < b /\ b < StartBlock
        /\ \A q \in Places :
              (\E p \in OfKind("proc_type") :
                  At(q).by = p \/ Inside(At(q).by, p))
              => (4 < q[1] /\ q[1] < StartBlock)
        /\ \A b \in 5..(StartBlock - 1) :
              \E p \in OfKind("proc_type") :
                  \E first \in BodiesOf(p) :
                      /\ first <= b
                      /\ \A p2 \in OfKind("proc_type") :
                            \A b2 \in BodiesOf(p2) :
                                b2 <= first \/ b2 > b \/ p2 = p
        /\ \A m \in OfKind("module") :
              /\ Labelled(<<scope(m), "implicit">>) = {StartBlock + 1}
              /\ \A q \in Places :
                    Inside(At(q).by, scope(m)) =>
                        (StartBlock < q[1] /\ q[1] < Len(blocks))
        /\ Labelled(EndLabel) = {Len(blocks)}
        /\ blocks[Len(blocks)].instrs = <<Ins("exit", NoLabel, 0, 0)>>

\* A program with a call at module level and with procedure instances has
\* been emitted.
ProgramWithProceduresEmitted ==
    /\ status = "ok"
    /\ \E p \in OfKind("proc_type") : BodiesOf(p) # {}
    /\ \E m \in OfKind("module") : \E q \in Places :
          Inside(At(q).by, scope(m))

\* The instructions emit_arguments placed: those of the prologue block
\* after the pushes of the locals and before the return slot.
ArgumentInstrs ==
    SubSeq(blocks[2].instrs, elems[1].call.locals + 1,
           Len(blocks[2].instrs)
             - (IF elems[1].call.has_return THEN 1 ELSE 0))

\* What the placing of arguments args[1..i] is to look like, last first.
RECURSIVE PlacedRightToLeft(_, _)
PlacedRightToLeft(args, i) ==
    IF i = 0 THEN <<>>
    ELSE (IF args[i].kind = "composite"
          THEN <<"sub_sp", "copy">> ELSE <<"push">>)
         \o PlacedRightToLeft(args, i - 1)

\* The sizes of the arguments args[1..i], each rounded up to 8.
RECURSIVE RoundedSizes(_, _)
RoundedSizes(args, i) ==
    IF i = 0 THEN 0
    ELSE RoundedSizes(args, i - 1) + ((args[i].size + 7) \div 8) * 8

\* The bytes the epilogue of the call gives back for the arguments.
ArgumentBytesFreed ==
    LET freed == {p \in Places : At(p).op = "add_sp"}
    IN  IF freed = {} THEN 0 ELSE At(CHOOSE p \in freed : TRUE).n

\* C15: for an emitted call of a native procedure the arguments are placed
\* last to first, a composite by sub sp and a copy of its size rounded up
\* to 8 and a scalar by a push, and the allocated size the call frees is
\* the sum of the rounded sizes of all its arguments.
ArgumentsPlacedAndCounted ==
    (status = "ok" /\ ~elems[1].call.is_foreign) =>
        /\ [k \in DOMAIN ArgumentInstrs |-> ArgumentInstrs[k].op]
             = PlacedRightToLeft(elems[1].call.args,
                                 Len(elems[1].call.args))
        /\ \A k \in DOMAIN ArgumentInstrs :
              ArgumentInstrs[k].op \in {"sub_sp", "copy"} =>
                  ArgumentInstrs[k].n % 8 = 0
        /\ ArgumentBytesFreed
             = RoundedSizes(elems[1].call.args, Len(elems[1].call.args))

\* A native call with a nested argument list after a composite argument
\* has been emitted.
NestedArgumentListEmitted ==
    /\ status = "ok" /\ ~elems[1].call.is_foreign
    /\ Len(elems[1].call.args) = 2
    /\ elems[1].call.args[1].kind = "composite"
    /\ elems[1].call.args[2].kind = "list"

\* The assignment's lhs and rhs, and the instructions emitted for it.
AssignLhs == elems[1].operands[1]
AssignRhs == elems[1].operands[2]
AssignInstrs == blocks[1].instrs

\* The start offsets of the fields along the access chain ending at e.
RECURSIVE ChainOffset(_)
ChainOffset(e) ==
    IF elems[e].kind # "member_access" THEN 0
    ELSE LET t == accessed_type(infer_type(elems, elems[e].operands[1]))
             f == CHOOSE f \in {t.fields[i] : i \in DOMAIN t.fields} :
                      f.name = elems[elems[e].operands[2]].symbol
         IN  ChainOffset(elems[e].operands[1]) + f.start_offset

\* C16: a member access yields the operand of the root variable and the
\* sum of the start offsets of the fields along the chain, and an emitted
\* assignment to a member access is one store to that base and offset and
\* nothing else, no temporary taking the address or the value first.
MemberAccessStoredDirectly ==
    (status \in {"ok", "failed"} /\ elems[1].kind = "assignment"
     /\ elems[AssignLhs].kind = "member_access") =>
        /\ emit_element_result(elems, AssignLhs).operands
             = <<[kind |-> "local", name |-> "p", size |-> 8],
                 [kind |-> "offset", value |-> ChainOffset(AssignLhs)]>>
        /\ status = "ok" =>
              /\ Len(AssignInstrs) = 1
              /\ AssignInstrs[1].op = "store"
              /\ AssignInstrs[1].operands
                   = <<[kind |-> "local", name |-> "p", size |-> 8],
                       emit_element_result(elems, AssignRhs).operands[1],
                       [kind |-> "offset",
                        value |-> ChainOffset(AssignLhs)]>>

\* p.y := 42 with p a point has been emitted: one store at offset 4.
FieldStoreEmitted ==
    /\ status = "ok" /\ elems[1].kind = "assignment"
    /\ elems[AssignLhs].kind = "member_access"
    /\ elems[elems[AssignLhs].operands[1]].type = point
    /\ elems[elems[AssignLhs].operands[2]].symbol = "y"
    /\ elems[AssignRhs].kind = "integer_literal"
    /\ AssignInstrs
         = <<[op |-> "store", label |-> NoLabel, n |-> 0, by |-> 1,
              operands |-> <<[kind |-> "local", name |-> "p", size |-> 8],
                             [kind |-> "imm", value |-> 42],
                             [kind |-> "offset", value |-> 4]>>]>>

\* The codes of the Type category: C000 to C099.
Digits == <<"0", "1", "2", "3", "4", "5", "6", "7", "8", "9">>
TypeCodes == {"C0" \o Digits[i] \o Digits[j] : i, j \in 1..10}

\* C17: an assignment between a composite and a scalar, the lhs not a
\* pointer, fails with an error of the Type category and neither a store
\* nor a copy; one between two composites is emitted as a byte-wise copy of
\* the size of the composite.
AssignmentCategoriesChecked ==
    (status \in {"ok", "failed"} /\ elems[1].kind = "assignment"
     /\ ~is_pointer_type(infer_type(elems, AssignLhs))) =>
        LET lhs_composite == is_composite_type(infer_type(elems, AssignLhs))
            rhs_composite == is_composite_type(infer_type(elems, AssignRhs))
        IN  /\ lhs_composite # rhs_composite =>
                  /\ status = "failed"
                  /\ \A k \in DOMAIN AssignInstrs :
                        AssignInstrs[k].op \notin {"store", "copy"}
                  /\ Len(errors) > 0
                  /\ \A k \in DOMAIN errors : errors[k] \in TypeCodes
            /\ (lhs_composite /\ rhs_composite) =>
                  /\ status = "ok"
                  /\ \A k \in DOMAIN AssignInstrs :
                        AssignInstrs[k].op # "store"
                  /\ \E k \in DOMAIN AssignInstrs :
                        /\ AssignInstrs[k].op = "copy"
                        /\ AssignInstrs[k].operands[3]
                             = [kind |-> "imm",
                                value |-> infer_type(elems, AssignRhs)
                                              .size_in_bytes]

\* A scalar has been assigned to a composite variable and rejected.
ScalarToCompositeRejected ==
    /\ status = "failed" /\ elems[1].kind = "assignment"
    /\ is_composite_type(infer_type(elems, AssignLhs))
    /\ ~is_pointer_type(infer_type(elems, AssignLhs))
    /\ ~is_composite_type(infer_type(elems, AssignRhs))

\* The types of a cast in view, and the mode the design table gives.
CastSource == elems[2].type
CastTarget == elems[1].type
TableMode ==
    CASE CastSource.number_class = "integer"
           /\ CastTarget.number_class = "integer"
           /\ CastSource.size_in_bytes >= CastTarget.size_in_bytes
             -> "integer_truncate"
      [] CastSource.number_class = "integer"
           /\ CastTarget.number_class = "integer"
           /\ CastSource.size_in_bytes < CastTarget.size_in_bytes
           /\ CastSource.is_signed
             -> "integer_sign_extend"
      [] CastSource.number_class = "integer"
           /\ CastTarget.number_class = "integer"
           /\ CastSource.size_in_bytes < CastTarget.size_in_bytes
           /\ ~CastSource.is_signed
             -> "integer_zero_extend"
      [] CastSource.number_class = "floating_point"
           /\ CastTarget.number_class = "floating_point"
           /\ CastSource.size_in_bytes >= CastTarget.size_in_bytes
             -> "float_truncate"
      [] CastSource.number_class = "floating_point"
           /\ CastTarget.number_class = "floating_point"
           /\ CastSource.size_in_bytes < CastTarget.size_in_bytes
             -> "float_extend"
      [] CastSource.number_class = "integer"
           /\ CastTarget.number_class = "floating_point"
             -> "integer_to_float"
      [] CastSource.number_class = "floating_point"
           /\ CastTarget.number_class = "integer"
             -> "float_to_integer"

\* C20: a cast between two types that have a number class is lowered in
\* the mode of the design table and emits one instruction: move for a
\* truncate of an integer, moves for a sign-extend, movez for a
\* zero-extend, convert for every mode with a float on either side.
CastModeOfTable ==
    (status \in {"ok", "failed", "crashed"} /\ elems[1].kind = "cast"
     /\ CastSource.number_class # "none"
     /\ CastTarget.number_class # "none") =>
        /\ status = "ok"
        /\ cast_mode(CastSource, CastTarget) = TableMode
        /\ Len(blocks[1].instrs) = 1
        /\ blocks[1].instrs[1].op
             = (CASE TableMode = "integer_truncate" -> "move"
                  [] TableMode = "integer_sign_extend" -> "moves"
                  [] TableMode = "integer_zero_extend" -> "movez"
                  [] TableMode \in {"float_truncate", "float_extend",
                                    "integer_to_float", "float_to_integer"}
                       -> "convert")

\* A cast of an s8 to an s32 has been emitted as a moves.
SignExtendEmitted ==
    /\ status = "ok" /\ elems[1].kind = "cast"
    /\ CastSource.name = "s8" /\ CastTarget.name = "s32"
    /\ blocks[1].instrs[1].op = "moves"

\* C21: a transmute between types of different sizes, or from or to a type
\* without a number class, fails with an error and emits no move; the
\* missing number class is reported as C073.
TransmuteChecked ==
    (status \in {"ok", "failed"} /\ elems[1].kind = "transmute") =>
        /\ (elems[2].type.size_in_bytes # elems[1].type.size_in_bytes
            \/ elems[2].type.number_class = "none"
            \/ elems[1].type.number_class = "none") =>
              /\ status = "failed"
              /\ Len(errors) > 0
              /\ \A k \in DOMAIN blocks[1].instrs :
                    blocks[1].instrs[k].op # "move"
        /\ (elems[2].type.number_class = "none"
            \/ elems[1].type.number_class = "none") =>
              errors = <<"C073">>

\* A transmute of a u8 to a u64 has been emitted as a move.
TransmuteAcrossSizesEmitted ==
    /\ status = "ok" /\ elems[1].kind = "transmute"
    /\ elems[2].type.name = "u8" /\ elems[1].type.name = "u64"
    /\ Len(blocks[1].instrs) = 1 /\ blocks[1].instrs[1].op = "move"

\* C22: a pointer type accepts only pointers: no numeric type of any
\* width, the pointer to void accepts every pointer, and any other pointer
\* accepts a pointer exactly when its base accepts the base of the other.
PointerAcceptsOnlyPointers ==
    status \in {"accepted", "rejected"} =>
        /\ elems[2].type.element_type # "pointer_type" =>
              status = "rejected"
        /\ (elems[2].type.element_type = "pointer_type"
            /\ elems[1].type.base[1].name = "u0") =>
              status = "accepted"
        /\ (elems[2].type.element_type = "pointer_type"
            /\ elems[1].type.base[1].name # "u0") =>
              (status = "accepted"
                 <=> type_check(elems[1].type.base[1],
                                elems[2].type.base[1]))

\* A pointer to a point has been checked against a u64 and accepted it.
PointerAcceptedNumeric ==
    /\ status = "accepted"
    /\ elems[1].type.name = "^point" /\ elems[2].type.name = "u64"

\* The value of a folded expression over integer literals.
RECURSIVE FoldValue(_)
FoldValue(e) ==
    IF elems[e].kind = "integer_literal" THEN elems[e].value
    ELSE IF elems[e].kind = "add"
    THEN FoldValue(elems[e].operands[1]) + FoldValue(elems[e].operands[2])
    ELSE FoldValue(elems[e].operands[1]) * FoldValue(elems[e].operands[2])

\* The integer literals a fold has made.
FoldedLiterals == {e \in Ids : elems[e].role = "folded"
                               /\ elems[e].parent = elems[1].parent}

\* C23: folding an arithmetic operator over integer literals makes one
\* integer literal holding the value of the expression; folding size_of
\* with one argument makes one holding the size of the argument's type,
\* and with none or several it reports P091 and makes no literal.
FoldMakesLiteral ==
    (status \in {"ok", "failed"} /\ elems[1].role = "expression") =>
        IF elems[1].kind = "size_of"
        THEN IF Len(elems[1].operands) = 1
             THEN /\ status = "ok"
                  /\ \E e \in FoldedLiterals :
                        /\ FoldedLiterals = {e}
                        /\ elems[e].kind = "integer_literal"
                        /\ elems[e].value = elems[2].type.size_in_bytes
             ELSE /\ status = "failed"
                  /\ errors = <<"P091">>
                  /\ FoldedLiterals = {}
        ELSE /\ status = "ok"
             /\ \E e \in FoldedLiterals :
                   /\ FoldedLiterals = {e}
                   /\ elems[e].kind = "integer_literal"
                   /\ elems[e].value = FoldValue(1)

\* 2 + 3 * 4 has been folded.
SumOfProductFolded ==
    /\ status = "ok" /\ elems[1].kind = "add" /\ Len(elems) >= 5
    /\ elems[3].kind = "multiply" /\ FoldValue(1) = 14

(***************************************************************************)
(* Variables: registers and flags.                                         *)
(***************************************************************************)

\* The call just made on a variable.
LastCall(op, v, result) ==
    /\ status = "emitting"
    /\ Len(frames) = 1
    /\ Top.op = op /\ Top.id = v /\ Top.stage = result

HoldsRegisters(v) == elems[v].address.allocated /\ elems[v].value.allocated
HoldsNoRegister(v) ==
    ~elems[v].address.allocated /\ ~elems[v].value.allocated

\* A call of activate or deactivate that returns false changes nothing.
RefusedCallChangesNothing ==
    \A v \in 1..MaxVariables :
        (frames' # <<>> /\ Top'.id = v /\ Top'.stage = "false"
         /\ Top'.op \in {"activate", "deactivate"})
        => elems' = elems /\ blocks' = blocks

\* C24: a variable holds its two registers exactly while it is activated:
\* activate on an activated variable and deactivate on one that is not
\* return false and change nothing, deactivate frees what activate
\* obtained, and activate does not return true when an allocation failed.
RegistersHeldWhileActivated ==
    /\ [](status = "emitting" =>
            \A v \in 1..MaxVariables :
                /\ flag(elems[v], "activated") => HoldsRegisters(v)
                /\ ~flag(elems[v], "activated") => HoldsNoRegister(v)
                /\ LastCall("activate", v, "true") => HoldsRegisters(v))
    /\ [][status = "emitting" => RefusedCallChangesNothing]_vars

\* activate returned true on a variable, every register held by others.
ActivatedWithoutRegister ==
    \E v \in 1..MaxVariables :
        /\ LastCall("activate", v, "true")
        /\ ~elems[v].value.allocated
        /\ reserved(elems) = 1..MaxRegisters

\* The last instruction emitted for v stores to it.
LastIsStore(v) ==
    LET is == blocks[bb].instrs
        own == {i \in 1..Len(is) : is[i].by = v}
    IN /\ own # {}
       /\ is[CHOOSE i \in own : \A j \in own : j <= i].op = "store_from_reg"

\* C29: on an activated variable the read and the written flag are never
\* both set, and the first read() after a write of any kind emits a load
\* and does not return false.
ReadAfterWriteLoads ==
    status = "emitting" =>
        \A v \in 1..MaxVariables :
            flag(elems[v], "activated") =>
                /\ ~(flag(elems[v], "read") /\ flag(elems[v], "written"))
                /\ ~(LastCall("read", v, "false") /\ LastIsStore(v))

\* read(), then write(constant) on an activated variable.
ConstantWrittenAfterRead ==
    \E v \in 1..MaxVariables :
        /\ LastCall("write_constant", v, "true")
        /\ flag(elems[v], "activated")
        /\ flag(elems[v], "read")
        /\ \E i \in 1..Len(blocks[bb].instrs) :
            /\ blocks[bb].instrs[i].op = "load_to_reg"
            /\ blocks[bb].instrs[i].by = v

(***************************************************************************)
(* The type info table.                                                    *)
(***************************************************************************)

\* The instructions of the type info block, and the records after the
\* _ti_array label: a record is the label of a type's info.
TypeInfoInstrs == blocks[1].instrs
TypeInfoRecords ==
    {l \in 1..Len(blocks[1].labels) :
        /\ blocks[1].labels[l] # <<0, "_ti_array">>
        /\ \E i \in 1..Len(elems) :
            blocks[1].labels[l] =
                <<0, make_info_label_name(elems[i].type)>>}
TypeInfoCount ==
    LET counts == {i \in 1..Len(TypeInfoInstrs) :
                      /\ TypeInfoInstrs[i].op = "qwords"
                      /\ TypeInfoInstrs[i].label = NoLabel}
    IN TypeInfoInstrs[CHOOSE i \in counts : TRUE].n

\* C25: the type info table holds one record per used type, and the count
\* stored at _ti_array is the number of records that follow it, whatever
\* the used types are.
TypeInfoCounted ==
    status = "ok" =>
        /\ \A i \in 1..Len(elems) :
            Cardinality({l \in TypeInfoRecords :
                blocks[1].labels[l] =
                    <<0, make_info_label_name(elems[i].type)>>}) = 1
        /\ TypeInfoCount = Cardinality(TypeInfoRecords)

\* The table of a used type set with a generic type in it is emitted.
GenericTypeInTable ==
    /\ status = "ok"
    /\ \E i \in 1..Len(elems) : elems[i].type.element_type = "generic_type"
    /\ \E i \in 1..Len(elems) : elems[i].type.element_type = "numeric_type"
    /\ TypeInfoCount = Len(elems)

(***************************************************************************)
(* Terminated blocks.                                                      *)
(***************************************************************************)

\* The places of a block that hold an unconditional jump or a return with
\* an instruction after them.
FollowedTerminators(b) ==
    {i \in 1..Len(blocks[b].instrs) :
        /\ blocks[b].instrs[i].op \in {"jmp", "rts"}
        /\ i < Len(blocks[b].instrs)}

\* C26: a block whose last instruction is an unconditional jump or a
\* return gets no further instruction: the code that follows a break,
\* continue or return in the same scope is in another block.
TerminatedBlocksStayClosed ==
    \A b \in 1..Len(blocks) : FollowedTerminators(b) = {}

\* A statement with code follows a return in the same scope.
StatementAfterReturnEmitted ==
    /\ status = "ok"
    /\ \E b \in OfKind("block") : \E t, u \in StmtsOf(b) :
          /\ elems[t].kind = "return"
          /\ t < u
          /\ \E p \in CodeOf(u) : At(p).op \notin {"jmp", "rts"}

(***************************************************************************)
(* The end of a procedure instance.                                        *)
(***************************************************************************)

\* The blocks of the instance whose body opens at block first: up to the
\* next instance, or to the _start block.
InstanceBlocks(first) ==
    {b \in first..(StartBlock - 1) :
        \A p \in OfKind("proc_type") : \A other \in BodiesOf(p) :
            other <= first \/ other > b}

\* C27: the blocks of every emitted native procedure instance hold an rts,
\* so that control which enters at the procedure's label does not run on
\* into the block emitted after the instance; a procedure with a return
\* type is no exception.
InstanceEndsWithReturn ==
    (status = "ok" /\ OfKind("module") # {}) =>
        \A p \in OfKind("proc_type") : \A first \in BodiesOf(p) :
            \E b \in InstanceBlocks(first) :
                \E i \in 1..Len(blocks[b].instrs) :
                    blocks[b].instrs[i].op = "rts"

\* The instance of a procedure with a return type has been emitted.
ReturningProcedureEmitted ==
    /\ status = "ok"
    /\ \E p \in OfKind("proc_type") :
          elems[p].call.has_return /\ BodiesOf(p) # {}

(***************************************************************************)
(* Termination of the call graph walk.                                     *)
(***************************************************************************)

\* Two procedures that call each other and are reached from module level.
MutuallyRecursive ==
    {pq \in ReachableProcedures \X ReachableProcedures :
        /\ pq[1] # pq[2]
        /\ pq[2] \in CalledFrom({pq[1]})
        /\ pq[1] \in CalledFrom({pq[2]})}

\* C28: the call graph walk of emit_procedure_types returns for every set
\* of call edges, those of procedures that call each other included: the
\* emitter is never ended by a recursion without end.
CallGraphWalkReturns ==
    OfKind("module") # {} => status # "crashed"

\* The walk has been made over a program in which two procedures reached
\* from module level call each other.
MutualRecursionWalked ==
    /\ OfKind("module") # {}
    /\ status \in {"ok", "crashed"}
    /\ MutuallyRecursive # {}

(***************************************************************************)
(* The messages of a result.                                               *)
(***************************************************************************)

\* The messages of a list whose code is not code, in their order.
RECURSIVE WithoutCode(_, _)
WithoutCode(messages, code) ==
    IF messages = <<>> THEN <<>>
    ELSE IF messages[1].code = code
    THEN WithoutCode(Tail(messages), code)
    ELSE <<messages[1]>> \o WithoutCode(Tail(messages), code)

\* The step is a call of remove_code.
RemoveCodeCalled ==
    /\ status = "emitting" /\ fuel' < fuel
    /\ frames' # <<>> /\ Top'.op = "remove_code"

\* C30: after remove_code(c) no message has the code c, whatever the
\* messages were, the messages of other codes are kept in their order, and
\* the result is failed exactly if it was.
RemoveCodeRemovesAll ==
    [][RemoveCodeCalled =>
            /\ status' = "emitting"
            /\ ~has_code(elems'[1], Top'.aux[2])
            /\ elems'[1].messages
                 = WithoutCode(elems[1].messages, Top'.aux[2])
            /\ is_failed(elems'[1]) = is_failed(elems[1])]_vars

\* remove_code has been called on a list with the code in two
\* consecutive messages.
ConsecutiveCodesRemoved ==
    /\ Len(frames) = 1 /\ Top.op = "remove_code"
    /\ has_code(elems[1], Top.aux[2])
    /\ Len(elems[1].messages) = 1

====
